---- MODULE Spec2Model ----
(***************************************************************************)
(* A model of one PythonShell session (src/index.ts, class PythonShell):   *)
(* the three completion signals (stdout 'end', stderr 'end', process       *)
(* 'exit'), the terminal join terminateIfNeeded, the line splitting of     *)
(* receiveInternal, and the operations end / terminate.                    *)
(*                                                                         *)
(* Strings are sequences of one-character strings.  The child process and  *)
(* the Node event loop are the environment: they deliver data chunks, the  *)
(* two stream ends and the exit notification in any order, each of the     *)
(* last three once.                                                        *)
(***************************************************************************)
EXTENDS Integers, Sequences, FiniteSets, TLC

\* ------------------------------------------------------------------ bounds
\* number of data chunks the child writes in one session (both streams)
MaxChunks == 2
\* how many messages the caller's send() calls get onto stdin
MaxSends == 2
\* number of data chunks the child of the second session writes
MaxPeerChunks == 1
\* number of sessions constructed one after the other
MaxSessions == 2

\* ------------------------------------------------------------- vocabulary
\* JavaScript null / undefined
Null == "null"
\* this.exitCode while it is null / undefined (exit codes are never negative)
NoCode == -1
\* os.EOL, the record delimiter
newline == "\n"
\* the chunks the child may write
Chunks == { <<"a">>, <<"1", newline>>, <<newline>> }
\* options.mode
Modes == {"text", "json", "binary"}
\* exit codes the child may exit with
ExitCodes == {0, 1}
\* signals terminate() may be given (Null: kill()'s default, SIGTERM)
Signals == {Null, "SIGKILL"}
\* functions the caller may pass to end()
Callbacks == {Null, "cb1", "cb2"}

VARIABLES
    mode,            \* this.mode
    stdin,           \* this.stdin is a stream (TRUE) or null (FALSE)
    stdout,          \* this.stdout is a stream (TRUE) or null (FALSE)
    stderr,          \* this.stderr is a stream (TRUE) or null (FALSE)
    terminated,      \* this.terminated
    stdoutHasEnded,  \* this.stdoutHasEnded
    stderrHasEnded,  \* this.stderrHasEnded
    exitCode,        \* this.exitCode
    exitSignal,      \* this.exitSignal
    remaining,       \* this._remaining
    endCallback,     \* this._endCallback
    errorData,       \* the constructor's errorData
    errorListeners,  \* this.listeners('error').length
    stdinEnded,      \* childProcess.stdin.end() has been called
    killSignal,      \* the signal childProcess.kill() has sent, or Null
    stdoutFed,       \* history: all text the child wrote to stdout so far
    stderrFed,       \* history: all text the child wrote to stderr so far
    arrivals,        \* history: the completion signals in arrival order
    trace,           \* history: emit() calls, end-callback invocations and
                     \*          the join's assignment to terminated
    uncaught,        \* history: kinds of exceptions that escaped a handler
    written,         \* history: number of chunks the child has written
    endLate,         \* history: end() was last called after a completion
                     \*          signal had arrived
    invoked,         \* history: the receive methods the session has called
    stdinWrites,     \* the data the stdin stream has accepted, in order
    sendThrew,       \* history: the last send() threw
    spawnError,      \* the childProcess 'error' event of a failed spawn:
                     \*          Null, "pending" or "delivered"
    launch,          \* the constructor's arguments and what it makes of
                     \*          them: this.scriptPath, this.command
    peer,            \* a second session of the same program: its fields
    eol,             \* os.EOL of the platform, the characters of newline
    objects          \* PythonShell.defaultOptions, and for each session
                     \*          constructed the caller's options object
                     \*          and the constructor's own

vars == <<mode, stdin, stdout, stderr, terminated, stdoutHasEnded, stderrHasEnded,
          exitCode, exitSignal, remaining, endCallback, errorData,
          errorListeners, stdinEnded, killSignal, stdoutFed, stderrFed,
          arrivals, trace, uncaught, written, endLate, invoked, stdinWrites,
          sendThrew, spawnError, launch, peer, eol, objects>>

\* everything that belongs to the first session, and what the program and
\* the platform hold for all sessions
own == <<mode, stdin, stdout, stderr, terminated, stdoutHasEnded, stderrHasEnded,
         exitCode, exitSignal, remaining, endCallback, errorData,
         errorListeners, stdinEnded, killSignal, stdoutFed, stderrFed,
         arrivals, trace, uncaught, written, endLate, invoked, stdinWrites,
         sendThrew, spawnError, launch, eol, objects>>

\* what send() and a failed spawn act on, what the constructor and the
\* platform have fixed, and the other session
outside == <<stdinWrites, sendThrew, spawnError, launch, peer, eol, objects>>

config == <<mode, stdin, stdout, stderr>>

\* ------------------------------------------------------------ pure helpers

\* String.prototype.split(new RegExp(d, 'g')) for a delimiter d of one or
\* more characters: the pieces between the matches of d, found from left
\* to right, always at least one piece
RECURSIVE splitOn(_, _)
splitOn(s, d) ==
    IF s = <<>> THEN << <<>> >>
    ELSE IF Len(s) >= Len(d) /\ SubSeq(s, 1, Len(d)) = d
         THEN << <<>> >> \o splitOn(SubSeq(s, Len(d) + 1, Len(s)), d)
         ELSE LET rest == splitOn(Tail(s), d)
              IN  << <<Head(s)>> \o Head(rest) >> \o Tail(rest)

\* split(new RegExp(newline, 'g')) with the platform's newline
split(s) == splitOn(s, eol)

\* A JSON value is a pair <<kind, content>>: <<"null", <<>>>>, a number with
\* its digits, a string with its characters, an array with its items, an
\* object with its <<key, value>> members.
JsonNull == <<"null", <<>>>>
JsonNumber(digits) == <<"number", digits>>
JsonString(chars) == <<"string", chars>>
JsonArray(items) == <<"array", items>>
JsonObject(members) == <<"object", members>>

\* the digits of the model's numbers
Digits == {"1", "2", "3", "4", "5"}

\* what a parsing step returns when the text is not JSON
ParseFail == [ok |-> FALSE, value |-> JsonNull, rest |-> <<>>]

\* how many digits the text begins with
RECURSIVE DigitPrefix(_)
DigitPrefix(t) ==
    IF t # <<>> /\ Head(t) \in Digits THEN 1 + DigitPrefix(Tail(t)) ELSE 0

\* the characters of a string literal after its opening quote, up to the
\* closing quote; \n is the one escape of the model, a raw line break is
\* not allowed
RECURSIVE ScanString(_, _)
ScanString(t, acc) ==
    IF t = <<>> THEN ParseFail
    ELSE IF Head(t) = "\"" THEN [ok |-> TRUE, value |-> acc, rest |-> Tail(t)]
    ELSE IF Head(t) = newline THEN ParseFail
    ELSE IF Head(t) = "\\"
         THEN IF Len(t) >= 2 /\ t[2] = "n"
              THEN ScanString(SubSeq(t, 3, Len(t)), Append(acc, newline))
              ELSE ParseFail
    ELSE ScanString(Tail(t), Append(acc, Head(t)))

\* JSON.parse, by recursive descent: one value at the start of the text
RECURSIVE ParseValue(_)
RECURSIVE ParseElements(_, _)
RECURSIVE ParseMembers(_, _)
ParseValue(t) ==
    IF t = <<>> THEN ParseFail
    ELSE IF Len(t) >= 4 /\ SubSeq(t, 1, 4) = <<"n", "u", "l", "l">>
         THEN [ok |-> TRUE, value |-> JsonNull, rest |-> SubSeq(t, 5, Len(t))]
    ELSE IF Head(t) \in Digits
         THEN LET n == DigitPrefix(t)
              IN  [ok |-> TRUE, value |-> JsonNumber(SubSeq(t, 1, n)),
                   rest |-> SubSeq(t, n + 1, Len(t))]
    ELSE IF Head(t) = "\""
         THEN LET r == ScanString(Tail(t), <<>>)
              IN  IF r.ok
                  THEN [ok |-> TRUE, value |-> JsonString(r.value), rest |-> r.rest]
                  ELSE ParseFail
    ELSE IF Head(t) = "["
         THEN IF Len(t) >= 2 /\ t[2] = "]"
              THEN [ok |-> TRUE, value |-> JsonArray(<<>>),
                    rest |-> SubSeq(t, 3, Len(t))]
              ELSE ParseElements(Tail(t), <<>>)
    ELSE IF Head(t) = "{"
         THEN IF Len(t) >= 2 /\ t[2] = "}"
              THEN [ok |-> TRUE, value |-> JsonObject(<<>>),
                    rest |-> SubSeq(t, 3, Len(t))]
              ELSE ParseMembers(Tail(t), <<>>)
    ELSE ParseFail

\* the items of an array after "[" or ","
ParseElements(t, acc) ==
    LET r == ParseValue(t)
    IN  IF ~r.ok \/ r.rest = <<>> THEN ParseFail
        ELSE IF Head(r.rest) = ","
             THEN ParseElements(Tail(r.rest), Append(acc, r.value))
        ELSE IF Head(r.rest) = "]"
             THEN [ok |-> TRUE, value |-> JsonArray(Append(acc, r.value)),
                   rest |-> Tail(r.rest)]
        ELSE ParseFail

\* the members of an object after "{" or ","
ParseMembers(t, acc) ==
    IF t = <<>> \/ Head(t) # "\"" THEN ParseFail
    ELSE LET k == ScanString(Tail(t), <<>>)
         IN  IF ~k.ok \/ k.rest = <<>> \/ Head(k.rest) # ":" THEN ParseFail
             ELSE LET r == ParseValue(Tail(k.rest))
                      members == Append(acc, <<k.value, r.value>>)
                  IN  IF ~r.ok \/ r.rest = <<>> THEN ParseFail
                      ELSE IF Head(r.rest) = ","
                           THEN ParseMembers(Tail(r.rest), members)
                      ELSE IF Head(r.rest) = "}"
                           THEN [ok |-> TRUE, value |-> JsonObject(members),
                                 rest |-> Tail(r.rest)]
                      ELSE ParseFail

\* JSON.parse(text): the whole text is one value
JSONparse(text) ==
    LET r == ParseValue(text)
    IN  IF r.ok /\ r.rest = <<>> THEN r ELSE ParseFail

\* the characters of a string as JSON.stringify writes them
RECURSIVE Escaped(_)
Escaped(chars) ==
    IF chars = <<>> THEN <<>>
    ELSE (IF Head(chars) = newline THEN <<"\\", "n">> ELSE <<Head(chars)>>)
            \o Escaped(Tail(chars))

\* JSON.stringify(value)
RECURSIVE JSONstringify(_)
RECURSIVE StringifyItems(_)
RECURSIVE StringifyMembers(_)
JSONstringify(v) ==
    IF v[1] = "null" THEN <<"n", "u", "l", "l">>
    ELSE IF v[1] = "number" THEN v[2]
    ELSE IF v[1] = "string" THEN <<"\"">> \o Escaped(v[2]) \o <<"\"">>
    ELSE IF v[1] = "array" THEN <<"[">> \o StringifyItems(v[2]) \o <<"]">>
    ELSE <<"{">> \o StringifyMembers(v[2]) \o <<"}">>

StringifyItems(items) ==
    IF items = <<>> THEN <<>>
    ELSE JSONstringify(Head(items))
            \o (IF Len(items) > 1 THEN <<",">> \o StringifyItems(Tail(items))
                ELSE <<>>)

StringifyMembers(members) ==
    IF members = <<>> THEN <<>>
    ELSE <<"\"">> \o Escaped(Head(members)[1]) \o <<"\"", ":">>
            \o JSONstringify(Head(members)[2])
            \o (IF Len(members) > 1 THEN <<",">> \o StringifyMembers(Tail(members))
                ELSE <<>>)

\* JSON.parse accepts the record
JsonValid(d) == JSONparse(d).ok

\* PythonShell.parse.text
asText(data) == data

\* PythonShell.parse.json that hands the text on as a string
asJson_AsString(data) == JsonString(data)

\* PythonShell.parse.json
asJson(data) == JSONparse(data).value

\* resolve('parse', mode): the parser's name, Null in binary mode
resolve(m) == IF m \in {"text", "json"} THEN m ELSE Null

\* calling the resolved parser on a record returns (does not throw)
ParserReturns(p, part) ==
    \/ p = "text"
    \/ p = "json" /\ JsonValid(part)

\* the value the resolved parser returns
ParserValue(p, part) == IF p = "json" THEN asJson(part) ELSE asText(part)

\* how many of the parts the forEach loop handles before a parser throws
RECURSIVE Handled(_, _)
Handled(p, parts) ==
    IF parts = <<>> \/ ~ParserReturns(p, Head(parts)) THEN 0
    ELSE 1 + Handled(p, Tail(parts))

\* receiveInternal whose buffering branch overwrites the carry buffer
receiveInternal_NoCarry(rem, data, emitType, p) ==
    LET parts == split(data)
    IN  IF Len(parts) = 1
        THEN [remaining |-> parts[1], emits |-> <<>>, threw |-> FALSE]
        ELSE LET lastLine == parts[Len(parts)]
                 front    == SubSeq(parts, 1, Len(parts) - 1)
                 fixed    == [front EXCEPT ![1] = rem \o front[1]]
                 n        == Handled(p, fixed)
             IN  [remaining |-> lastLine,
                  emits |-> [i \in 1..n |-> <<emitType, ParserValue(p, fixed[i])>>],
                  threw |-> n < Len(fixed)]

\* receiveInternal that skips the empty records
receiveInternal_SkipEmpty(rem, data, emitType, p) ==
    LET parts == split(data)
    IN  IF Len(parts) = 1
        THEN [remaining |-> rem \o parts[1], emits |-> <<>>, threw |-> FALSE]
        ELSE LET lastLine == parts[Len(parts)]
                 front    == SubSeq(parts, 1, Len(parts) - 1)
                 fixed    == SelectSeq([front EXCEPT ![1] = rem \o front[1]],
                                       LAMBDA part : part # <<>>)
                 n        == Handled(p, fixed)
             IN  [remaining |-> lastLine,
                  emits |-> [i \in 1..n |-> <<emitType, ParserValue(p, fixed[i])>>],
                  threw |-> n < Len(fixed)]

\* receiveInternal(data, emitType) with parser p, on carry buffer rem:
\* the new carry buffer, the emit() calls made, whether an exception escaped
receiveInternal(rem, data, emitType, p) ==
    LET parts == split(data)
    IN  IF Len(parts) = 1
        THEN [remaining |-> rem \o parts[1], emits |-> <<>>, threw |-> FALSE]
        ELSE LET lastLine == parts[Len(parts)]
                 front    == SubSeq(parts, 1, Len(parts) - 1)
                 fixed    == [front EXCEPT ![1] = rem \o front[1]]
                 n        == Handled(p, fixed)
             IN  [remaining |-> lastLine,
                  emits |-> [i \in 1..n |-> <<emitType, ParserValue(p, fixed[i])>>],
                  threw |-> n < Len(fixed)]

\* white space, as String.prototype.trim() sees it in the model's alphabet
Whitespace == {" ", newline}

\* String.prototype.trim()
RECURSIVE trim(_)
trim(text) ==
    IF text = <<>> THEN <<>>
    ELSE IF Head(text) \in Whitespace THEN trim(Tail(text))
    ELSE IF text[Len(text)] \in Whitespace THEN trim(SubSeq(text, 1, Len(text) - 1))
    ELSE text

\* /^Traceback/.test(text): the model writes the word as the one token "T"
IsTraceback(text) == text # <<>> /\ text[1] = "T"

\* the banner parseError puts between the host stack and the traceback lines
Banner == "----- Python Traceback -----"

\* Array.prototype.join(separator)
RECURSIVE arrayJoin(_, _)
arrayJoin(list, separator) ==
    IF list = <<>> THEN <<>>
    ELSE IF Len(list) = 1 THEN list[1]
    ELSE list[1] \o separator \o arrayJoin(Tail(list), separator)

\* what parseError appends to error.stack for the traceback lines:
\* newline + '    ----- Python Traceback -----' + newline + '  ', then
\* lines.slice(1).join(newline + '  ')
extendStack(lines) ==
    eol \o <<" ", " ", " ", " ", Banner>> \o eol \o <<" ", " ">>
        \o arrayJoin(SubSeq(lines, 2, Len(lines)), eol \o <<" ", " ">>)

\* parseError that splits the text as it is, without trim()
parseError_NoTrim(data) ==
    IF IsTraceback(data)
    THEN LET all   == split(data)
             lines == SubSeq(all, 1, Len(all) - 1)
         IN  [message   |-> all[Len(all)],
              traceback |-> data,
              stack     |-> extendStack(lines)]
    ELSE [message |-> data, traceback |-> <<>>, stack |-> <<>>]

\* parseError that leaves the header line among the lines of the stack
parseError_KeepHeader(data) ==
    IF IsTraceback(data)
    THEN LET all   == split(trim(data))
             lines == SubSeq(all, 1, Len(all) - 1)
         IN  [message   |-> all[Len(all)],
              traceback |-> data,
              stack     |-> extendStack(<<all[1]>> \o lines)]
    ELSE [message |-> data, traceback |-> <<>>, stack |-> <<>>]

\* parseError(data): message, traceback (<<>> when not set) and what is
\* appended to the host stack (<<>> when nothing is)
parseError(data) ==
    IF IsTraceback(data)
    THEN LET all   == split(trim(data))
             lines == SubSeq(all, 1, Len(all) - 1)
         IN  [message   |-> all[Len(all)],
              traceback |-> data,
              stack     |-> extendStack(lines)]
    ELSE [message |-> data, traceback |-> <<>>, stack |-> <<>>]

\* terminateIfNeeded's err while it is undefined
NoError ==
    [message |-> <<>>, traceback |-> <<>>, stack |-> <<>>, exitCode |-> NoCode]

\* MakeError that takes the message from the stderr text even when empty
MakeError_NoGeneric(data, code) ==
    [message   |-> parseError(data).message,
     traceback |-> parseError(data).traceback,
     stack     |-> parseError(data).stack,
     exitCode  |-> code]

\* the error terminateIfNeeded builds for a non-zero exit code
MakeError(data, code) ==
    IF data # <<>>
    THEN [message   |-> parseError(data).message,
          traceback |-> parseError(data).traceback,
          stack     |-> parseError(data).stack,
          exitCode  |-> code]
    ELSE [message   |-> <<"process exited with code ", ToString(code)>>,
          traceback |-> <<>>,
          stack     |-> <<>>,
          exitCode  |-> code]

\* JoinReady without the wait for stdout 'end'
JoinReady_NoStdoutWait(outEnded, errEnded, code, signal) ==
    errEnded /\ ~(code = NoCode /\ signal = Null)

\* JoinReady without the wait for the exit notification
JoinReady_NoExitWait(outEnded, errEnded, code, signal) ==
    outEnded /\ errEnded

\* the guard of terminateIfNeeded: all three completion signals are in
JoinReady(outEnded, errEnded, code, signal) ==
    outEnded /\ errEnded /\ ~(code = NoCode /\ signal = Null)

\* IsFailure taking a missing exit code (exit by signal) for a failure
IsFailure_NotZero(code) == code # 0

\* IsFailure taking exit code 0 for a failure as well
IsFailure_AnyCode(code) == code # NoCode

\* self.exitCode && self.exitCode !== 0
IsFailure(code) == code # NoCode /\ code # 0

\* EmitsError that never emits
EmitsError_Never(listeners, cb) == FALSE

\* EmitsError without the "|| !self._endCallback" alternative
EmitsError_ListenersOnly(listeners, cb) == listeners > 0

\* InvokesCallback dropping the callback of a failed session
InvokesCallback_OnSuccessOnly(cb, code) == cb # Null /\ code = 0

\* self._endCallback && self._endCallback(...): the callback is invoked
InvokesCallback(cb, code) == cb # Null

\* self.listeners('error').length || !self._endCallback
EmitsError(listeners, cb) == listeners > 0 \/ cb = Null

\* one pass of extend's forEach loop: every key of source is set on obj
assign(obj, source) ==
    [key \in DOMAIN obj \cup DOMAIN source |->
        IF key \in DOMAIN source THEN source[key] ELSE obj[key]]

\* extend(obj, ...args): the sources are assigned to obj from first to last
\* (an object is a function on its keys, {} and a missing source are <<>>)
RECURSIVE extend(_, _)
extend(obj, args) ==
    IF args = <<>> THEN obj ELSE extend(assign(obj, Head(args)), Tail(args))

\* list.length ? list : null
ListOrNull(list) ==
    IF Len(list) # 0 THEN [kind |-> "array", items |-> list]
    ELSE [kind |-> "null", items |-> <<>>]

\* the context properties terminateIfNeeded adds to the error, from what
\* the constructor l has computed
Context(l, code) ==
    [executable |-> l.pythonPath,
     options    |-> ListOrNull(l.pythonOptions),
     script     |-> l.scriptPath,
     args       |-> ListOrNull(l.scriptArgs),
     exitCode   |-> code]

\* JoinError that leaves the option and argument lists as they are, also
\* when they are empty
JoinError_KeepEmpty(data, code) ==
    extend(MakeError(data, code),
           << [Context(launch, code) EXCEPT
                 !.options = [kind |-> "array", items |-> launch.pythonOptions],
                 !.args    = [kind |-> "array", items |-> launch.scriptArgs]] >>)

\* the error of a failed session: the error built from stderr or the exit
\* code, extended with the context properties
JoinError(data, code) ==
    extend(MakeError(data, code), <<Context(launch, code)>>)

\* terminateIfNeeded that emits close before it sets terminated
terminateIfNeeded_CloseFirst(outEnded, errEnded, code, signal) ==
    IF ~JoinReady(outEnded, errEnded, code, signal)
    THEN UNCHANGED <<terminated, trace, uncaught>>
    ELSE LET err    == IF IsFailure(code) THEN JoinError(errorData, code) ELSE NoError
             emitE  == IsFailure(code) /\ EmitsError(errorListeners, endCallback)
             throws == emitE /\ errorListeners = 0
             t1     == IF emitE THEN Append(trace, <<"error", err>>) ELSE trace
             t2     == t1 \o << <<"close">>, <<"terminated">> >>
             t3     == IF InvokesCallback(endCallback, code)
                       THEN Append(t2, <<"endCallback", endCallback, err, code, signal>>)
                       ELSE t2
         IN  IF throws
             THEN /\ trace' = t1
                  /\ uncaught' = uncaught \cup {"error"}
                  /\ UNCHANGED terminated
             ELSE /\ trace' = t3
                  /\ terminated' = TRUE
                  /\ UNCHANGED uncaught

\* terminateIfNeeded(), called with the flags as the calling handler has
\* just set them.  EventEmitter.emit('error', err) throws err when no
\* 'error' listener is registered; the exception leaves terminateIfNeeded
\* before terminated is set.  The trace records the assignment
\* self.terminated = true at its place between the emit() calls.
terminateIfNeeded(outEnded, errEnded, code, signal) ==
    IF ~JoinReady(outEnded, errEnded, code, signal)
    THEN UNCHANGED <<terminated, trace, uncaught>>
    ELSE LET err    == IF IsFailure(code) THEN JoinError(errorData, code) ELSE NoError
             emitE  == IsFailure(code) /\ EmitsError(errorListeners, endCallback)
             throws == emitE /\ errorListeners = 0
             t1     == IF emitE THEN Append(trace, <<"error", err>>) ELSE trace
             t2     == t1 \o << <<"terminated">>, <<"close">> >>
             t3     == IF InvokesCallback(endCallback, code)
                       THEN Append(t2, <<"endCallback", endCallback, err, code, signal>>)
                       ELSE t2
         IN  IF throws
             THEN /\ trace' = t1
                  /\ uncaught' = uncaught \cup {"error"}
                  /\ UNCHANGED terminated
             ELSE /\ trace' = t3
                  /\ terminated' = TRUE
                  /\ UNCHANGED uncaught

\* ------------------------------------------------------ the command vector
\* a value of the pythonOptions / args option: absent, one string, a list
\* (empty, of one, of two)
OptionValues ==
    { [kind |-> "undefined", items |-> <<>>],
      [kind |-> "single",    items |-> << <<"x">> >>],
      [kind |-> "array",     items |-> <<>>],
      [kind |-> "array",     items |-> << <<"x">> >>],
      [kind |-> "array",     items |-> << <<"x">>, <<"y">> >>] }

\* toArray(source)
toArray(source) ==
    IF source.kind = "undefined" THEN <<>>
    ELSE IF source.kind # "array" THEN <<source.items[1]>>
    ELSE source.items

\* path.join(a, b) on paths written as their segments: the segments of both,
\* with each ".." taking back the segment before it
RECURSIVE normalize(_, _)
normalize(done, rest) ==
    IF rest = <<>> THEN done
    ELSE IF Head(rest) = ".." /\ done # <<>> /\ done[Len(done)] # ".."
         THEN normalize(SubSeq(done, 1, Len(done) - 1), Tail(rest))
         ELSE normalize(Append(done, Head(rest)), Tail(rest))

join(a, b) == normalize(<<>>, a \o b)

\* PythonShell.defaultPythonPath (off Windows)
defaultPythonPath == "python3"

\* the constructor with the script before the interpreter options
construct_ScriptFirst(script, options) ==
    LET pythonPath    == IF options.pythonPath = "" THEN defaultPythonPath
                         ELSE options.pythonPath
        pythonOptions == toArray(options.pythonOptions)
        scriptArgs    == toArray(options.args)
        scriptPath    == join(options.scriptPath, script)
    IN  [script |-> script, options |-> options, constructed |-> TRUE,
         pythonPath |-> pythonPath, pythonOptions |-> pythonOptions,
         scriptArgs |-> scriptArgs, scriptPath |-> scriptPath,
         command |-> <<scriptPath>> \o pythonOptions \o scriptArgs]

\* the constructor, as far as the command goes: pythonPath, toArray of the
\* two option lists, this.scriptPath, this.command (options.scriptPath is
\* <<>> and options.pythonPath is "" when absent or '')
construct(script, options) ==
    LET pythonPath    == IF options.pythonPath = "" THEN defaultPythonPath
                         ELSE options.pythonPath
        pythonOptions == toArray(options.pythonOptions)
        scriptArgs    == toArray(options.args)
        scriptPath    == join(options.scriptPath, script)
    IN  [script |-> script, options |-> options, constructed |-> TRUE,
         pythonPath |-> pythonPath, pythonOptions |-> pythonOptions,
         scriptArgs |-> scriptArgs, scriptPath |-> scriptPath,
         command |-> pythonOptions \o <<scriptPath>> \o scriptArgs]

\* the object {}
EmptyObject == [key \in {} |-> Null]

\* PythonShell.defaultOptions is {} and the one session was given no options
NoDefaults ==
    objects = [defaultOptions |-> EmptyObject,
               sessions |-> << [given |-> EmptyObject, options |-> EmptyObject] >>]

\* a session constructed for one script with no options
Launched ==
    /\ NoDefaults
    /\ launch = construct(<<"a.py">>,
                       [pythonPath    |-> "",
                        pythonOptions |-> [kind |-> "undefined", items |-> <<>>],
                        args          |-> [kind |-> "undefined", items |-> <<>>],
                        scriptPath    |-> <<>>])

\* ----------------------------------------------------------- other session
\* a second session, started by run() in text mode with its three pipes
PeerInit ==
    [terminated |-> FALSE, stdoutHasEnded |-> FALSE, stderrHasEnded |-> FALSE,
     exitCode |-> NoCode, exitSignal |-> Null, remaining |-> <<>>,
     errorData |-> <<>>, endCallback |-> "run", errorListeners |-> 0,
     killSignal |-> Null, stdoutFed |-> <<>>, stderrFed |-> <<>>,
     trace |-> <<>>, uncaught |-> {}, written |-> 0]

\* ------------------------------------------------------------------- Init
\* the state when the constructor returns: the process is spawned, nothing
\* has been read yet.  spawn's stdio option decides which streams exist.
Constructed ==
    /\ mode \in Modes
    /\ stdin \in BOOLEAN
    /\ stdout \in BOOLEAN
    /\ stderr \in BOOLEAN
    /\ terminated = FALSE
    /\ stdoutHasEnded = ~stdout
    /\ stderrHasEnded = ~stderr
    /\ exitCode = NoCode
    /\ exitSignal = Null
    /\ remaining = <<>>
    /\ endCallback = Null
    /\ errorData = <<>>
    /\ errorListeners = 0
    /\ stdinEnded = FALSE
    /\ killSignal = Null
    /\ stdoutFed = <<>>
    /\ stderrFed = <<>>
    /\ arrivals = <<>>
    /\ trace = <<>>
    /\ uncaught = {}
    /\ written = 0
    /\ endLate = FALSE
    /\ invoked = {}
    /\ stdinWrites = <<>>
    /\ sendThrew = FALSE
    /\ peer = PeerInit

\* os.EOL on every platform but Windows
Posix == eol = <<newline>>

\* spawn() started the process
Init == Constructed /\ Launched /\ Posix /\ spawnError = Null

\* --------------------------------------------------------------- actions

\* stdout 'data': this.receive(data), attached only when a parser is set
StdoutData(data) ==
    /\ spawnError = Null
    /\ stdout /\ ~stdoutHasEnded
    /\ written < MaxChunks
    /\ written' = written + 1
    /\ stdoutFed' = stdoutFed \o data
    /\ IF resolve(mode) # Null
       THEN LET r == receiveInternal(remaining, data, "message", resolve(mode))
            IN  /\ remaining' = r.remaining
                /\ trace' = trace \o r.emits
                /\ uncaught' = IF r.threw THEN uncaught \cup {"parser"} ELSE uncaught
                /\ invoked' = invoked \cup {"receive"}
       ELSE UNCHANGED <<remaining, trace, uncaught, invoked>>
    /\ UNCHANGED <<config, outside, terminated, stdoutHasEnded, stderrHasEnded, exitCode,
                   exitSignal, endCallback, errorData, errorListeners, stdinEnded,
                   killSignal, stderrFed, arrivals, endLate>>

\* stderr 'data' that accumulates the text only after receiveStderr has
\* returned, so not when that call throws
StderrData_AfterReceive(data) ==
    /\ spawnError = Null
    /\ stderr /\ ~stderrHasEnded
    /\ written < MaxChunks
    /\ written' = written + 1
    /\ stderrFed' = stderrFed \o data
    /\ LET r == receiveInternal(remaining, data, "stderr", resolve(mode))
       IN  /\ remaining' = r.remaining
           /\ trace' = trace \o r.emits
           /\ uncaught' = IF r.threw THEN uncaught \cup {"parser"} ELSE uncaught
           /\ errorData' = IF r.threw THEN errorData ELSE errorData \o data
    /\ invoked' = invoked \cup {"receiveStderr"}
    /\ UNCHANGED <<config, outside, terminated, stdoutHasEnded, stderrHasEnded, exitCode,
                   exitSignal, endCallback, errorListeners, stdinEnded,
                   killSignal, stdoutFed, arrivals, endLate>>

\* stderr 'data': errorData += data; self.receiveStderr(data)
StderrData(data) ==
    /\ spawnError = Null
    /\ stderr /\ ~stderrHasEnded
    /\ written < MaxChunks
    /\ written' = written + 1
    /\ stderrFed' = stderrFed \o data
    /\ errorData' = errorData \o data
    /\ LET r == receiveInternal(remaining, data, "stderr", resolve(mode))
       IN  /\ remaining' = r.remaining
           /\ trace' = trace \o r.emits
           /\ uncaught' = IF r.threw THEN uncaught \cup {"parser"} ELSE uncaught
    /\ invoked' = invoked \cup {"receiveStderr"}
    /\ UNCHANGED <<config, outside, terminated, stdoutHasEnded, stderrHasEnded, exitCode,
                   exitSignal, endCallback, errorListeners, stdinEnded,
                   killSignal, stdoutFed, arrivals, endLate>>

\* stdout 'end'
StdoutEnd ==
    /\ stdout /\ ~stdoutHasEnded
    /\ stdoutHasEnded' = TRUE
    /\ arrivals' = Append(arrivals, "stdout")
    /\ terminateIfNeeded(TRUE, stderrHasEnded, exitCode, exitSignal)
    /\ UNCHANGED <<config, invoked, outside, stderrHasEnded, exitCode, exitSignal, remaining,
                   endCallback, errorData, errorListeners, stdinEnded, killSignal,
                   stdoutFed, stderrFed, written, endLate>>

\* stderr 'end'
StderrEnd ==
    /\ stderr /\ ~stderrHasEnded
    /\ stderrHasEnded' = TRUE
    /\ arrivals' = Append(arrivals, "stderr")
    /\ terminateIfNeeded(stdoutHasEnded, TRUE, exitCode, exitSignal)
    /\ UNCHANGED <<config, invoked, outside, stdoutHasEnded, exitCode, exitSignal, remaining,
                   endCallback, errorData, errorListeners, stdinEnded, killSignal,
                   stdoutFed, stderrFed, written, endLate>>

\* the (code, signal) pairs the 'exit' event may carry: a code, or the
\* signal that kill() sent
ExitOutcomes ==
    {<<c, Null>> : c \in ExitCodes}
        \cup (IF killSignal = Null THEN {} ELSE {<<NoCode, killSignal>>})

\* childProcess 'exit', delivered once
Exit(code, signal) ==
    /\ spawnError = Null
    /\ "exit" \notin {arrivals[i] : i \in 1..Len(arrivals)}
    /\ <<code, signal>> \in ExitOutcomes
    /\ exitCode' = code
    /\ exitSignal' = signal
    /\ arrivals' = Append(arrivals, "exit")
    /\ terminateIfNeeded(stdoutHasEnded, stderrHasEnded, code, signal)
    /\ UNCHANGED <<config, invoked, outside, stdoutHasEnded, stderrHasEnded, remaining,
                   endCallback, errorData, errorListeners, stdinEnded, killSignal,
                   stdoutFed, stderrFed, written, endLate>>

\* end that keeps the callback of an earlier call
end_KeepsFirst(callback) ==
    /\ stdinEnded' = (stdin \/ stdinEnded)
    /\ endCallback' = IF endCallback = Null THEN callback ELSE endCallback
    /\ endLate' = (arrivals # <<>>)
    /\ UNCHANGED <<config, invoked, outside, terminated, stdoutHasEnded, stderrHasEnded, exitCode,
                   exitSignal, remaining, errorData, errorListeners, killSignal,
                   stdoutFed, stderrFed, arrivals, trace, uncaught, written>>

\* end that invokes the callback at once when the process has finished
end_InvokesNow(callback) ==
    /\ stdinEnded' = (stdin \/ stdinEnded)
    /\ endCallback' = callback
    /\ endLate' = (arrivals # <<>>)
    /\ trace' = IF terminated /\ callback # Null
                THEN Append(trace, <<"endCallback", callback, NoError, exitCode,
                                     exitSignal>>)
                ELSE trace
    /\ UNCHANGED <<config, invoked, outside, terminated, stdoutHasEnded, stderrHasEnded, exitCode,
                   exitSignal, remaining, errorData, errorListeners, killSignal,
                   stdoutFed, stderrFed, arrivals, uncaught, written>>

\* end(callback)
end(callback) ==
    /\ stdinEnded' = (stdin \/ stdinEnded)
    /\ endCallback' = callback
    /\ endLate' = (arrivals # <<>>)
    /\ UNCHANGED <<config, invoked, outside, terminated, stdoutHasEnded, stderrHasEnded, exitCode,
                   exitSignal, remaining, errorData, errorListeners, killSignal,
                   stdoutFed, stderrFed, arrivals, trace, uncaught, written>>

\* terminate that sends the signal but leaves the terminated flag alone
terminate_NoFlag(signal) ==
    /\ killSignal' = IF killSignal # Null \/ exitCode # NoCode \/ exitSignal # Null
                     THEN killSignal
                     ELSE IF signal = Null THEN "SIGTERM" ELSE signal
    /\ UNCHANGED <<config, invoked, outside, terminated, stdoutHasEnded, stderrHasEnded, exitCode,
                   exitSignal, remaining, endCallback, errorData, errorListeners,
                   stdinEnded, stdoutFed, stderrFed, arrivals, trace, uncaught,
                   written, endLate>>

\* terminate that flips the terminated flag instead of setting it
terminate_Toggle(signal) ==
    /\ killSignal' = IF killSignal # Null \/ exitCode # NoCode \/ exitSignal # Null
                     THEN killSignal
                     ELSE IF signal = Null THEN "SIGTERM" ELSE signal
    /\ terminated' = ~terminated
    /\ UNCHANGED <<config, invoked, outside, stdoutHasEnded, stderrHasEnded, exitCode, exitSignal,
                   remaining, endCallback, errorData, errorListeners, stdinEnded,
                   stdoutFed, stderrFed, arrivals, trace, uncaught, written,
                   endLate>>

\* terminate(signal): kill() delivers nothing to a child that has exited
terminate(signal) ==
    /\ killSignal' = IF killSignal # Null \/ exitCode # NoCode \/ exitSignal # Null
                     THEN killSignal
                     ELSE IF signal = Null THEN "SIGTERM" ELSE signal
    /\ terminated' = TRUE
    /\ UNCHANGED <<config, invoked, outside, stdoutHasEnded, stderrHasEnded, exitCode, exitSignal,
                   remaining, endCallback, errorData, errorListeners, stdinEnded,
                   stdoutFed, stderrFed, arrivals, trace, uncaught, written,
                   endLate>>

\* on('error', listener)
onError ==
    /\ errorListeners = 0
    /\ errorListeners' = 1
    /\ UNCHANGED <<config, invoked, outside, terminated, stdoutHasEnded, stderrHasEnded, exitCode,
                   exitSignal, remaining, endCallback, errorData, stdinEnded,
                   killSignal, stdoutFed, stderrFed, arrivals, trace, uncaught,
                   written, endLate>>

Next ==
    \/ \E data \in Chunks : StdoutData(data)
    \/ \E data \in Chunks : StderrData(data)
    \/ StdoutEnd
    \/ StderrEnd
    \/ \E code \in ExitCodes \cup {NoCode}, signal \in {Null, "SIGTERM", "SIGKILL"} :
          Exit(code, signal)
    \/ \E callback \in Callbacks : end(callback)
    \/ \E signal \in Signals : terminate(signal)
    \/ onError

Spec == Init /\ [][Next]_vars

\* a session spawned with the default options: text mode, three pipes
DefaultInit == Init /\ mode = "text" /\ stdin /\ stdout /\ stderr

\* the default session with the deliveries the platform guarantees: every
\* opened stream ends and the exit notification is delivered
FairSpec ==
    /\ DefaultInit /\ [][Next]_vars
    /\ WF_vars(StdoutEnd)
    /\ WF_vars(StderrEnd)
    /\ WF_vars(\E code \in ExitCodes \cup {NoCode}, signal \in {Null, "SIGTERM", "SIGKILL"} :
                  Exit(code, signal))

\* ----------------------------------------------------------------- send
\* the values a caller sends: the strings "a" and "", the number 1 (a
\* structured value has type "value" and is carried in text as a JSON value)
SendValues ==
    { [type |-> "string", text |-> <<"a">>],
      [type |-> "string", text |-> <<>>],
      [type |-> "number", text |-> <<"1">>] }

\* PythonShell.format.text: '' for a falsy value, toString() of a
\* non-string, the string itself
toText(data) ==
    IF data.type = "string" /\ data.text = <<>> THEN <<>> ELSE data.text

\* PythonShell.format.json
toJson(data) ==
    JSONstringify(IF data.type = "string" THEN JsonString(data.text)
                  ELSE IF data.type = "number" THEN JsonNumber(data.text)
                  ELSE data.text)

\* send that writes the formatted value without the delimiter
send_NoDelimiter(message) ==
    /\ Len(stdinWrites) < MaxSends
    /\ sendThrew' = ~stdin
    /\ IF ~stdin
       THEN UNCHANGED <<stdinWrites, uncaught>>
       ELSE LET formatted == IF mode = "text" THEN toText(message)
                             ELSE IF mode = "json" THEN toJson(message)
                             ELSE message.text
            IN  IF stdinEnded
                THEN /\ uncaught' = uncaught \cup {"write after end"}
                     /\ UNCHANGED stdinWrites
                ELSE /\ stdinWrites' = Append(stdinWrites, formatted)
                     /\ UNCHANGED uncaught
    /\ UNCHANGED <<config, invoked, spawnError, launch, peer, eol, objects, terminated, stdoutHasEnded,
                   stderrHasEnded, exitCode, exitSignal, remaining, endCallback,
                   errorData, errorListeners, stdinEnded, killSignal, stdoutFed,
                   stderrFed, arrivals, trace, written, endLate>>

\* send(message): throws when stdin was not opened; otherwise formats,
\* appends the newline outside binary mode, and writes.  A stream that
\* end() has closed accepts nothing and raises a write-after-end error of
\* its own, which no listener of the session handles.
send(message) ==
    /\ Len(stdinWrites) < MaxSends
    /\ sendThrew' = ~stdin
    /\ IF ~stdin
       THEN UNCHANGED <<stdinWrites, uncaught>>
       ELSE LET formatted == IF mode = "text" THEN toText(message)
                             ELSE IF mode = "json" THEN toJson(message)
                             ELSE message.text
                data == IF mode # "binary" THEN formatted \o eol
                        ELSE formatted
            IN  IF stdinEnded
                THEN /\ uncaught' = uncaught \cup {"write after end"}
                     /\ UNCHANGED stdinWrites
                ELSE /\ stdinWrites' = Append(stdinWrites, data)
                     /\ UNCHANGED uncaught
    /\ UNCHANGED <<config, invoked, spawnError, launch, peer, eol, objects, terminated, stdoutHasEnded,
                   stderrHasEnded, exitCode, exitSignal, remaining, endCallback,
                   errorData, errorListeners, stdinEnded, killSignal, stdoutFed,
                   stderrFed, arrivals, trace, written, endLate>>

\* a caller that sends and ends while the process runs to its exit
SendNext ==
    \/ \E message \in SendValues : send(message)
    \/ \E callback \in Callbacks : end(callback)
    \/ StdoutEnd
    \/ StderrEnd
    \/ \E code \in ExitCodes : Exit(code, Null)

SendSpec == Init /\ [][SendNext]_vars

\* ---------------------------------------------------------- failed spawn
\* spawn() could not start the process: the constructor returns all the
\* same, and the child handle will emit 'error' with the OS failure
SpawnFailedInit == Constructed /\ Launched /\ Posix /\ spawnError = "pending"

\* childProcess 'error': the constructor attaches no listener for it, so
\* the emitter throws the OS failure; the session emits nothing
childProcessError ==
    /\ spawnError = "pending"
    /\ spawnError' = "delivered"
    /\ uncaught' = uncaught \cup {"spawn"}
    /\ UNCHANGED <<config, invoked, stdinWrites, sendThrew, launch, peer, eol, objects, terminated,
                   stdoutHasEnded, stderrHasEnded, exitCode, exitSignal, remaining,
                   endCallback, errorData, errorListeners, stdinEnded, killSignal,
                   stdoutFed, stderrFed, arrivals, trace, written, endLate>>

\* the pipes of the failed child end; no 'exit' is delivered
SpawnFailedNext ==
    \/ childProcessError
    \/ StdoutEnd
    \/ StderrEnd
    \/ \E callback \in Callbacks : end(callback)
    \/ onError

SpawnFailedSpec == SpawnFailedInit /\ [][SpawnFailedNext]_vars

\* ------------------------------------------------------- a failing script
\* what a failing script writes to stderr: the traceback header, a line,
\* a line with a trailing blank, a blank line, an indented unfinished line
ErrChunks ==
    { <<"T", newline>>, <<"a", newline>>, <<"a", " ", newline>>,
      <<" ", newline>>, <<" ", "a">> }

\* a text-mode session whose stderr is the only output pipe
ErrInit == Init /\ mode = "text" /\ stderr /\ ~stdout

ErrNext ==
    \/ \E data \in ErrChunks : StderrData(data)
    \/ StderrEnd
    \/ \E code \in ExitCodes : Exit(code, Null)
    \/ \E callback \in Callbacks : end(callback)
    \/ onError

ErrSpec == ErrInit /\ [][ErrNext]_vars

\* a session in any mode whose stderr is the only output pipe
StderrInit == Init /\ stderr /\ ~stdout

StderrSpec == StderrInit /\ [][ErrNext]_vars

\* what a script that dies of an exception writes to stderr: the header
\* alone or with an indented line, indented lines and the summary, the
\* summary alone, an empty line
TraceChunks ==
    { <<"T", newline>>, <<"T", newline, " ", "a", newline>>,
      <<" ", " ", "b", newline, "c", newline>>, <<"c", newline>>, <<newline>> }

TraceNext ==
    \/ \E data \in TraceChunks : StderrData(data)
    \/ StderrEnd
    \/ \E code \in ExitCodes : Exit(code, Null)
    \/ \E callback \in Callbacks : end(callback)
    \/ onError

TraceSpec == ErrInit /\ [][TraceNext]_vars

\* ------------------------------------------------------------------ run
\* run's end callback that passes the output list even when it is empty
runCallback_AlwaysList(err, output) ==
    IF err # NoError
    THEN [err |-> err, kind |-> "undefined", output |-> <<>>]
    ELSE [err |-> NoError, kind |-> "list", output |-> output]

\* run's end callback that passes the collected output along with the error
runCallback_PassesOutput(err, output) ==
    [err |-> err,
     kind |-> IF Len(output) > 0 THEN "list" ELSE "null",
     output |-> output]

\* the function run() hands to end(): the arguments it calls the caller's
\* callback with.  kind tells a list from null and from a missing argument
runCallback(err, output) ==
    IF err # NoError
    THEN [err |-> err, kind |-> "undefined", output |-> <<>>]
    ELSE [err |-> NoError,
          kind |-> IF Len(output) > 0 THEN "list" ELSE "null",
          output |-> output]

\* PythonShell.run after the constructor: on('message', push) and
\* end(function), in the same tick as the construction
run ==
    /\ endCallback = Null /\ arrivals = <<>> /\ written = 0
    /\ end("run")

\* a session started by run(): nothing else happens before run returns
RunNext ==
    \/ run
    \/ /\ endCallback = "run"
       /\ \/ \E data \in Chunks : StdoutData(data)
          \/ \E data \in Chunks : StderrData(data)
          \/ StdoutEnd
          \/ StderrEnd
          \/ \E code \in ExitCodes : Exit(code, Null)
          \/ onError

RunSpec == Init /\ [][RunNext]_vars

\* ------------------------------------------------- every operation at once
\* a default session on which the caller uses every method while the
\* child writes lines, ends its streams and exits, in any order
LifeNext ==
    \/ StdoutData(<<"1", newline>>)
    \/ StderrData(<<"a", newline>>)
    \/ StdoutEnd
    \/ StderrEnd
    \/ \E code \in ExitCodes \cup {NoCode}, signal \in {Null, "SIGTERM"} :
          Exit(code, signal)
    \/ send([type |-> "string", text |-> <<"a">>])
    \/ end("cb1")
    \/ terminate(Null)
    \/ onError

LifeSpec == DefaultInit /\ [][LifeNext]_vars

\* ----------------------------------------------------------- ending input
\* a text-mode session with both output pipes, with or without stdin, on
\* which the caller calls end() any number of times with any callback
\* while the child writes a fragment and a line, ends its streams and exits
EndInit == Init /\ mode = "text" /\ stdout /\ stderr

EndNext ==
    \/ \E data \in {<<"a">>, <<"1", newline>>} : StdoutData(data)
    \/ StdoutEnd
    \/ StderrEnd
    \/ \E code \in ExitCodes : Exit(code, Null)
    \/ \E callback \in Callbacks : end(callback)
    \/ terminate(Null)
    \/ onError

EndSpec == EndInit /\ [][EndNext]_vars

\* ---------------------------------------------------------- ending twice
\* a caller that calls end(cb1) and later end(cb2)
endFirst == endCallback = Null /\ end("cb1")
endSecond == endCallback = "cb1" /\ end("cb2")

\* the default session of that caller, while the child writes, ends its
\* streams and exits
TwoEndsNext ==
    \/ \E data \in {<<"a">>, <<"1", newline>>} : StdoutData(data)
    \/ StdoutEnd
    \/ StderrEnd
    \/ \E code \in ExitCodes : Exit(code, Null)
    \/ endFirst
    \/ endSecond
    \/ onError

TwoEndsSpec == DefaultInit /\ [][TwoEndsNext]_vars

\* -------------------------------------------------------- the constructor
\* the calls new PythonShell(script, options) the model constructs
Requests ==
    [script      : { <<"a.py">>, <<"..", "a.py">> },
     options     : [pythonPath    : { "", "python2" },
                    pythonOptions : OptionValues,
                    args          : OptionValues,
                    scriptPath    : { <<>>, <<"dir">> }],
     constructed : {FALSE},
     pythonPath  : { "" },
     pythonOptions : { <<>> },
     scriptArgs  : { <<>> },
     scriptPath  : { <<>> },
     command     : { <<>> }]

\* the constructor has its arguments and has not yet assigned the fields
\* that the command depends on
CommandInit ==
    /\ Constructed /\ Posix /\ NoDefaults /\ spawnError = Null
    /\ launch \in Requests

constructCommand ==
    /\ ~launch.constructed
    /\ launch' = construct(launch.script, launch.options)
    /\ UNCHANGED <<config, invoked, stdinWrites, sendThrew, spawnError, peer,
                   eol, objects, terminated, stdoutHasEnded, stderrHasEnded, exitCode,
                   exitSignal, remaining, endCallback, errorData, errorListeners,
                   stdinEnded, killSignal, stdoutFed, stderrFed, arrivals, trace,
                   uncaught, written, endLate>>

CommandSpec == CommandInit /\ [][constructCommand]_vars

\* ------------------------------------------------------- default options
\* values PythonShell.defaultOptions is set to before sessions are made
DefaultChoices ==
    { EmptyObject,
      [scriptPath |-> <<"dir">>],
      [scriptPath |-> <<"dir">>,
       args |-> [kind |-> "array", items |-> << <<"x">> >>]],
      [pythonPath |-> "python2"] }

\* options objects a caller passes to the constructor (none is {})
GivenChoices ==
    { EmptyObject,
      [args |-> [kind |-> "single", items |-> << <<"y">> >>]],
      [scriptPath |-> <<"lib">>],
      [scriptPath |-> <<"lib">>, pythonPath |-> "python3.9"] }

\* the constructor's reads of options.pythonPath, options.pythonOptions,
\* options.args, options.scriptPath: a key that is not set reads as
\* undefined
readOptions(options) ==
    [pythonPath    |-> IF "pythonPath" \in DOMAIN options
                       THEN options.pythonPath ELSE "",
     pythonOptions |-> IF "pythonOptions" \in DOMAIN options
                       THEN options.pythonOptions
                       ELSE [kind |-> "undefined", items |-> <<>>],
     args          |-> IF "args" \in DOMAIN options
                       THEN options.args
                       ELSE [kind |-> "undefined", items |-> <<>>],
     scriptPath    |-> IF "scriptPath" \in DOMAIN options
                       THEN options.scriptPath ELSE <<>>]

\* no session has been constructed
NotLaunched ==
    launch = [script |-> <<>>, options |-> readOptions(EmptyObject),
              constructed |-> FALSE, pythonPath |-> "", pythonOptions |-> <<>>,
              scriptArgs |-> <<>>, scriptPath |-> <<>>, command |-> <<>>]

OptionsInit ==
    /\ Constructed /\ Posix /\ NotLaunched /\ spawnError = Null
    /\ objects \in [defaultOptions : DefaultChoices, sessions : { <<>> }]

\* the constructor extending PythonShell.defaultOptions itself instead of a
\* new object
constructSession_IntoDefaults(script, given) ==
    /\ Len(objects.sessions) < MaxSessions
    /\ LET options == extend(objects.defaultOptions, <<given>>)
       IN  /\ objects' = [defaultOptions |-> options,
                          sessions |-> Append(objects.sessions,
                                              [given |-> given, options |-> options])]
           /\ launch' = construct(script, readOptions(options))
    /\ UNCHANGED <<config, invoked, stdinWrites, sendThrew, spawnError, peer,
                   eol, terminated, stdoutHasEnded, stderrHasEnded, exitCode,
                   exitSignal, remaining, endCallback, errorData, errorListeners,
                   stdinEnded, killSignal, stdoutFed, stderrFed, arrivals, trace,
                   uncaught, written, endLate>>

\* new PythonShell(script, given), as far as the options go: the session's
\* options are a new object that defaultOptions and then the caller's
\* object are copied into; both are only read
constructSession(script, given) ==
    /\ Len(objects.sessions) < MaxSessions
    /\ LET options == extend(EmptyObject, <<objects.defaultOptions, given>>)
       IN  /\ objects' = [objects EXCEPT
                            !.sessions = Append(@, [given |-> given,
                                                    options |-> options])]
           /\ launch' = construct(script, readOptions(options))
    /\ UNCHANGED <<config, invoked, stdinWrites, sendThrew, spawnError, peer,
                   eol, terminated, stdoutHasEnded, stderrHasEnded, exitCode,
                   exitSignal, remaining, endCallback, errorData, errorListeners,
                   stdinEnded, killSignal, stdoutFed, stderrFed, arrivals, trace,
                   uncaught, written, endLate>>

OptionsNext ==
    \E script \in { <<"a.py">>, <<"..", "a.py">> }, given \in GivenChoices :
        constructSession(script, given)

OptionsSpec == OptionsInit /\ [][OptionsNext]_vars

\* ------------------------------------------- a failing script, any options
\* a text-mode session constructed from any of the requests, whose stderr
\* is the only output pipe
ContextInit ==
    /\ Constructed /\ Posix /\ NoDefaults /\ spawnError = Null
    /\ launch \in {construct(r.script, r.options) : r \in Requests}
    /\ mode = "text" /\ stderr /\ ~stdout

ContextNext ==
    \/ StderrData(<<"a", newline>>)
    \/ StderrEnd
    \/ \E code \in ExitCodes : Exit(code, Null)
    \/ end("cb1")
    \/ onError

ContextSpec == ContextInit /\ [][ContextNext]_vars

\* ------------------------------------------------------------ two sessions
\* terminateIfNeeded() of the second session, on its fields p (it was
\* constructed with the arguments of the first)
PeerJoin(p) ==
    IF ~JoinReady(p.stdoutHasEnded, p.stderrHasEnded, p.exitCode, p.exitSignal)
    THEN p
    ELSE LET err    == IF IsFailure(p.exitCode)
                       THEN JoinError(p.errorData, p.exitCode) ELSE NoError
             emitE  == IsFailure(p.exitCode)
                         /\ EmitsError(p.errorListeners, p.endCallback)
             throws == emitE /\ p.errorListeners = 0
             t1     == IF emitE THEN Append(p.trace, <<"error", err>>) ELSE p.trace
             t2     == t1 \o << <<"terminated">>, <<"close">> >>
             t3     == IF InvokesCallback(p.endCallback, p.exitCode)
                       THEN Append(t2, <<"endCallback", p.endCallback, err,
                                         p.exitCode, p.exitSignal>>)
                       ELSE t2
         IN  IF throws
             THEN [p EXCEPT !.trace = t1, !.uncaught = @ \cup {"error"}]
             ELSE [p EXCEPT !.trace = t3, !.terminated = TRUE]

\* stdout 'data' of the second session
PeerStdoutData(data) ==
    /\ ~peer.stdoutHasEnded
    /\ peer.written < MaxPeerChunks
    /\ LET r == receiveInternal(peer.remaining, data, "message", "text")
       IN  peer' = [peer EXCEPT !.written = @ + 1,
                                !.stdoutFed = @ \o data,
                                !.remaining = r.remaining,
                                !.trace = @ \o r.emits]
    /\ UNCHANGED own

\* stderr 'data' of a second session that shared errorData with the first
PeerStderrData_SharedErrorData(data) ==
    /\ ~peer.stderrHasEnded
    /\ peer.written < MaxPeerChunks
    /\ LET r == receiveInternal(peer.remaining, data, "stderr", "text")
       IN  peer' = [peer EXCEPT !.written = @ + 1,
                                !.stderrFed = @ \o data,
                                !.errorData = errorData \o data,
                                !.remaining = r.remaining,
                                !.trace = @ \o r.emits]
    /\ errorData' = errorData \o data
    /\ UNCHANGED <<config, invoked, stdinWrites, sendThrew, spawnError, launch,
                   eol, objects, terminated, stdoutHasEnded, stderrHasEnded, exitCode,
                   exitSignal, remaining, endCallback, errorListeners,
                   stdinEnded, killSignal, stdoutFed, stderrFed, arrivals, trace,
                   uncaught, written, endLate>>

\* stderr 'data' of the second session
PeerStderrData(data) ==
    /\ ~peer.stderrHasEnded
    /\ peer.written < MaxPeerChunks
    /\ LET r == receiveInternal(peer.remaining, data, "stderr", "text")
       IN  peer' = [peer EXCEPT !.written = @ + 1,
                                !.stderrFed = @ \o data,
                                !.errorData = @ \o data,
                                !.remaining = r.remaining,
                                !.trace = @ \o r.emits]
    /\ UNCHANGED own

\* stdout 'end' of the second session
PeerStdoutEnd ==
    /\ ~peer.stdoutHasEnded
    /\ peer' = PeerJoin([peer EXCEPT !.stdoutHasEnded = TRUE])
    /\ UNCHANGED own

\* stderr 'end' of the second session
PeerStderrEnd ==
    /\ ~peer.stderrHasEnded
    /\ peer' = PeerJoin([peer EXCEPT !.stderrHasEnded = TRUE])
    /\ UNCHANGED own

\* childProcess 'exit' of the second session
PeerExit(code, signal) ==
    /\ peer.exitCode = NoCode /\ peer.exitSignal = Null
    /\ \/ code \in ExitCodes /\ signal = Null
       \/ code = NoCode /\ signal # Null /\ signal = peer.killSignal
    /\ peer' = PeerJoin([peer EXCEPT !.exitCode = code, !.exitSignal = signal])
    /\ UNCHANGED own

\* terminate() on the second session
PeerTerminate ==
    /\ peer' = [peer EXCEPT
                  !.killSignal = IF peer.killSignal # Null \/ peer.exitCode # NoCode
                                      \/ peer.exitSignal # Null
                                 THEN @ ELSE "SIGTERM",
                  !.terminated = TRUE]
    /\ UNCHANGED own

\* an event or an operation on the first session, started by run()
TwoOwnStep ==
    \/ StdoutData(<<"1", newline>>)
    \/ StderrData(<<"a", newline>>)
    \/ StdoutEnd
    \/ StderrEnd
    \/ \E code \in ExitCodes \cup {NoCode}, signal \in {Null, "SIGTERM"} :
          Exit(code, signal)
    \/ send([type |-> "string", text |-> <<"a">>])
    \/ terminate(Null)

\* an event or an operation on the second session
TwoPeerStep ==
    \/ PeerStdoutData(<<"a", newline>>)
    \/ PeerStderrData(<<"1", newline>>)
    \/ PeerStdoutEnd
    \/ PeerStderrEnd
    \/ \E code \in ExitCodes \cup {NoCode}, signal \in {Null, "SIGTERM"} :
          PeerExit(code, signal)
    \/ PeerTerminate

\* two sessions started by run() one after the other, then running
\* concurrently
TwoNext ==
    \/ run
    \/ endCallback = "run" /\ (TwoOwnStep \/ TwoPeerStep)

TwoSpec == DefaultInit /\ [][TwoNext]_vars

\* --------------------------------------------------------------- echo
\* the structured values a caller sends in json mode: {a:"b"}, null,
\* [1,2,3] and a string with a line break in it
EchoValues ==
    { [type |-> "value", text |-> JsonObject(<< << <<"a">>, JsonString(<<"b">>) >> >>)],
      [type |-> "value", text |-> JsonNull],
      [type |-> "value",
       text |-> JsonArray(<<JsonNumber(<<"1">>), JsonNumber(<<"2">>), JsonNumber(<<"3">>)>>)],
      [type |-> "value", text |-> JsonString(<<"a", newline, "b">>)] }

\* a json-mode session whose script writes every line it reads back
EchoInit == Init /\ mode = "json" /\ stdin /\ stdout /\ ~stderr

\* the script echoes the next line it has not yet echoed
echo ==
    /\ written < Len(stdinWrites)
    /\ StdoutData(stdinWrites[written + 1])

EchoNext ==
    \/ \E message \in EchoValues : send(message)
    \/ echo
    \/ StdoutEnd
    \/ \E code \in ExitCodes : Exit(code, Null)

EchoSpec == EchoInit /\ [][EchoNext]_vars

\* ------------------------------------------------ one stream, many records
\* the chunks of a child that writes whole lines, several lines in one
\* write, or a line followed by the start of the next
LineChunks ==
    { <<"a">>, <<"1", newline>>, <<newline>>,
      <<"a", newline, "1", newline>>, <<"1", newline, "a">> }

\* a session in text or json mode whose stdout is the only output pipe
LineInit == Init /\ mode \in {"text", "json"} /\ stdout /\ ~stderr

LineNext ==
    \/ \E data \in LineChunks : StdoutData(data)
    \/ StdoutEnd
    \/ \E code \in ExitCodes : Exit(code, Null)

LineSpec == LineInit /\ [][LineNext]_vars

\* ------------------------------------------------- the platform's newline
\* os.EOL: "\n", and "\r\n" on Windows
Delimiters == { <<newline>>, <<"\r", newline>> }

\* the chunks of a child whose lines end in "\n" or in "\r\n", cut by the
\* pipe at any character, also between "\r" and "\n"
EolChunks ==
    { <<"a">>, <<"a", "\r">>, <<newline, "b">>, <<"\r", newline>>, <<newline>> }

\* a text-mode session on either platform whose stdout is the only output
\* pipe
EolInit ==
    /\ Constructed /\ Launched /\ spawnError = Null
    /\ eol \in Delimiters
    /\ mode = "text" /\ stdout /\ ~stderr

EolNext ==
    \/ \E data \in EolChunks : StdoutData(data)
    \/ StdoutEnd
    \/ \E code \in ExitCodes : Exit(code, Null)

EolSpec == EolInit /\ [][EolNext]_vars

\* ------------------------------------------------------------ empty lines
\* the chunks of a child that writes empty lines: a line break alone, a
\* fragment, a line followed by an empty line
EmptyLineChunks == { <<newline>>, <<"a">>, <<"1", newline, newline>> }

\* a session in text or json mode with both output pipes
EmptyLineInit == Init /\ mode \in {"text", "json"} /\ stdout /\ stderr

EmptyLineNext ==
    \/ \E data \in EmptyLineChunks : StdoutData(data)
    \/ \E data \in EmptyLineChunks : StderrData(data)
    \/ StdoutEnd
    \/ StderrEnd
    \/ \E code \in ExitCodes : Exit(code, Null)

EmptyLineSpec == EmptyLineInit /\ [][EmptyLineNext]_vars

\* ------------------------------------------------------------- type check
TypeOK ==
    /\ mode \in Modes
    /\ terminated \in BOOLEAN
    /\ exitCode \in ExitCodes \cup {NoCode}
    /\ written \in 0..MaxChunks
    /\ invoked \subseteq {"receive", "receiveStderr"}
    /\ Len(stdinWrites) <= MaxSends
    /\ sendThrew \in BOOLEAN
    /\ spawnError \in {Null, "pending", "delivered"}

\* ------------------------------------------------- observation operators

\* the entries of the trace of one kind, in order
Entries(kind) == SelectSeq(trace, LAMBDA e : e[1] = kind)
EntriesNext(kind) == SelectSeq(trace', LAMBDA e : e[1] = kind)

\* how many entries of one kind the trace holds
Count(kind) == Len(Entries(kind))

\* the terminal join has fired: it emitted, or called the end callback
JoinFired == Count("error") + Count("close") + Count("endCallback") > 0

\* an exit notification has been recorded
ExitAssigned == exitCode # NoCode \/ exitSignal # Null

\* all three completion signals have been observed
AllSignalsIn == stdoutHasEnded /\ stderrHasEnded /\ ExitAssigned

\* a step in which the last of the completion signals arrives
LastSignalStep == ~AllSignalsIn /\ AllSignalsIn'

\* the exit code is a number other than zero
NonZeroExit == exitCode # NoCode /\ exitCode # 0

\* the payloads of the 'message' (resp. 'stderr') events emitted so far
Payloads(kind) == [i \in 1..Count(kind) |-> Entries(kind)[i][2]]

\* the delimiter-terminated records of a text: every piece but the last
TerminatedRecords(text) == SubSeq(split(text), 1, Len(split(text)) - 1)

\* the unterminated fragment at the end of a text
Fragment(text) == split(text)[Len(split(text))]

\* the records of a stream that has ended: the terminated records, then
\* the fragment when it is not empty
AllRecords(text) ==
    TerminatedRecords(text) \o
        (IF Fragment(text) = <<>> THEN <<>> ELSE <<Fragment(text)>>)

\* the trace with its 'message' and 'stderr' entries only up to the first
\* 'close': no such entry follows a 'close'
NothingAfterClose ==
    \A i, j \in 1..Len(trace) :
        (trace[i][1] = "close" /\ i < j) => trace[j][1] \notin {"message", "stderr"}

\* ----------------------------------------------------------------- claims

\* C1: in every reachable state the terminal join (error / close emitted,
\* end callback invoked) has fired only if stdoutHasEnded and stderrHasEnded
\* are both true and exitCode or exitSignal is assigned; in particular an
\* exit notification that arrives before a stream end does not fire it.
C1_JoinOnlyWhenAllIn == JoinFired => AllSignalsIn

\* C1 witness: the exit notification came first, the join fired later
C1_Witness ==
    /\ Len(arrivals) = 3 /\ arrivals[1] = "exit"
    /\ Count("close") = 1

\* C2: with the three signals each delivered once, in any of the six
\* orders: nothing of the join happens before the third signal; close is
\* never emitted twice and the end callback never invoked twice; and when
\* the third signal arrives with an end callback registered, close is
\* emitted exactly once and that callback is invoked exactly once, with the
\* exit code and signal of the exit notification.
C2_Once ==
    /\ Len(arrivals) < 3 => ~JoinFired
    /\ Count("close") <= 1
    /\ Count("endCallback") <= 1

C2_AtThird ==
    (stdout /\ stderr /\ LastSignalStep /\ endCallback # Null) =>
        /\ Len(arrivals') = 3
        /\ Len(EntriesNext("close")) = 1
        /\ Len(EntriesNext("endCallback")) = 1
        /\ LET e == EntriesNext("endCallback")[1]
           IN  e[2] = endCallback /\ e[4] = exitCode' /\ e[5] = exitSignal'

C3_FlushOnEnd ==
    (mode = "text" /\ stdout /\ stdoutHasEnded /\ stderrFed = <<>>) =>
        /\ Payloads("message") = AllRecords(stdoutFed)
        /\ remaining = <<>>

\* C4: the two streams have independent carry buffers: under every
\* interleaving the message records are those of the stdout text alone and
\* the stderr records are those of the stderr text alone (text mode).
C4_IndependentBuffers ==
    mode = "text" =>
        /\ Payloads("message") = TerminatedRecords(stdoutFed)
        /\ Payloads("stderr") = TerminatedRecords(stderrFed)

\* C5: no message or stderr event follows close, and when close has been
\* emitted every delimiter-terminated record the child wrote to stdout and
\* to stderr has been emitted (text mode).
C5_AllEmittedBeforeClose ==
    /\ NothingAfterClose
    /\ (mode = "text" /\ Count("close") > 0) =>
           /\ Payloads("message") = TerminatedRecords(stdoutFed)
           /\ Payloads("stderr") = TerminatedRecords(stderrFed)

\* C6: whenever all three completion signals are in, close has been emitted
\* and terminated is true, whatever the exit code, the error listeners and
\* the end callback.
C6_CloseUnconditional ==
    AllSignalsIn => (Count("close") = 1 /\ terminated)

\* C7: at a terminal join with a non-zero exit code the error event is
\* emitted if and only if an error listener is registered at that moment or
\* no end callback is registered; with an end callback and no error
\* listener no error event is emitted and the callback receives the error.
C7_AtJoin ==
    (LastSignalStep /\ exitCode' # NoCode /\ exitCode' # 0) =>
        /\ (Len(EntriesNext("error")) = 1) <=> (errorListeners > 0 \/ endCallback = Null)
        /\ (endCallback # Null /\ errorListeners = 0) =>
               /\ Len(EntriesNext("error")) = 0
               /\ Len(EntriesNext("endCallback")) = 1
               /\ EntriesNext("endCallback")[1][3] # NoError

C7_ErrorEventRule == [][C7_AtJoin]_vars

\* C7 witness: a failed session whose error went to the callback only
C7_Witness ==
    /\ NonZeroExit
    /\ Count("error") = 0
    /\ Count("endCallback") = 1
    /\ Entries("endCallback")[1][3] # NoError

\* C8: an error is built at the terminal join if and only if the exit code
\* is a number other than zero: after the join of a failed session an
\* error was emitted or handed to the callback; after any other join
\* (exit code 0 or exit by signal, whatever was written to stderr) no error
\* event was emitted, close was emitted, and the end callback, if invoked,
\* received no error and the exit code.
C8_ErrorIffNonZero ==
    AllSignalsIn =>
        IF NonZeroExit
        THEN \/ Count("error") = 1
             \/ /\ Count("endCallback") = 1
                /\ Entries("endCallback")[1][3] # NoError
        ELSE /\ Count("error") = 0
             /\ uncaught \cap {"error"} = {}
             /\ Count("close") = 1
             /\ \A i \in 1..Count("endCallback") :
                    /\ Entries("endCallback")[i][3] = NoError
                    /\ Entries("endCallback")[i][4] = exitCode

\* C8 witness: text on stderr, exit code 0, callback got (no error, 0)
C8_Witness ==
    /\ stderrFed # <<>>
    /\ exitCode = 0
    /\ Count("error") = 0
    /\ Count("close") = 1
    /\ Count("endCallback") = 1
    /\ Entries("endCallback")[1][3] = NoError
    /\ Entries("endCallback")[1][4] = 0

\* C9 as claimed: once the process has terminated (all three signals in),
\* a callback passed to end() has been invoked exactly once, whenever end()
\* was called.
C9_CallbackWheneverRegistered ==
    (AllSignalsIn /\ endCallback # Null) =>
        Len(SelectSeq(trace, LAMBDA e : e[1] = "endCallback" /\ e[2] = endCallback)) = 1

\* C9 as amended: the callback that is registered when the last of the
\* three completion signals arrives is invoked exactly once, in that step,
\* with (error or none, exitCode, exitSignal), however many of the other
\* signals had arrived when end() was called; no other step invokes a
\* callback, so one registered after the join is never invoked.
C9_AtJoin ==
    LastSignalStep =>
        IF endCallback # Null
        THEN /\ Len(EntriesNext("endCallback")) = 1
             /\ LET e == EntriesNext("endCallback")[1]
                IN  /\ e[2] = endCallback
                    /\ (e[3] # NoError) <=> (exitCode' # NoCode /\ exitCode' # 0)
                    /\ e[4] = exitCode'
                    /\ e[5] = exitSignal'
        ELSE Len(EntriesNext("endCallback")) = 0

C9_OnlyAtJoin ==
    ~LastSignalStep =>
        \/ trace' = trace
        \/ EntriesNext("endCallback") = Entries("endCallback")

C9_CallbackAtJoin == [][C9_AtJoin /\ C9_OnlyAtJoin]_vars

\* C9 witness: end() was called after a completion signal had arrived, and
\* its callback was invoked at the third
C9_Witness ==
    /\ endLate
    /\ Len(arrivals) = 3
    /\ Count("endCallback") = 1
    /\ Entries("endCallback")[1][2] = endCallback

\* C10: terminate(signal) sets terminated at once, before any exit
\* notification, and itself neither emits nor invokes the end callback;
\* the stream ends and the exit notification still arrive and drive the
\* join, so that after a kill all three signals eventually are in and the
\* end callback registered at that moment is invoked exactly once.
C10_TerminateStep ==
    (\E signal \in Signals : terminate(signal)) =>
        /\ terminated'
        /\ trace' = trace
        /\ arrivals' = arrivals

C10_JoinAfterKill ==
    (LastSignalStep /\ killSignal # Null /\ endCallback # Null) =>
        /\ Len(EntriesNext("endCallback")) = 1
        /\ EntriesNext("endCallback")[1][2] = endCallback

C12_BinarySilent ==
    mode = "binary" =>
        /\ Count("message") = 0
        /\ Count("stderr") = 0
        /\ invoked = {}

\* the records of a text that the parser p accepts, parsed, in order
ParsedRecords(p, text) ==
    LET ok == SelectSeq(TerminatedRecords(text), LAMBDA part : ParserReturns(p, part))
    IN  [i \in 1..Len(ok) |-> ParserValue(p, ok[i])]

\* C13: a parser failure is local to one record: every complete record the
\* parser accepts is emitted, in order, whatever record before it (in the
\* same chunk or an earlier one) the parser threw on.
C13_ParserFailureLocal ==
    (stdout /\ ~stderr /\ resolve(mode) # Null) =>
        Payloads("message") = ParsedRecords(resolve(mode), stdoutFed)

\* records joined with the delimiter between them
RECURSIVE JoinRecords(_)
JoinRecords(records) ==
    IF records = <<>> THEN <<>>
    ELSE IF Len(records) = 1 THEN records[1]
    ELSE records[1] \o <<newline>> \o JoinRecords(Tail(records))

\* a text ends with the delimiter
EndsWithDelimiter(text) == text # <<>> /\ text[Len(text)] = newline

\* C16: line splitting is lossless: once the stream has ended, the emitted
\* records joined with the delimiter (one more delimiter after the last
\* record only when the input ended with one) are the concatenated chunks.
C16_SplitLossless ==
    (mode = "text" /\ stdout /\ ~stderr /\ stdoutHasEnded) =>
        JoinRecords(Payloads("message"))
            \o (IF EndsWithDelimiter(stdoutFed) THEN <<newline>> ELSE <<>>)
          = stdoutFed

C14_SendFailsWhenClosed ==
    [][ \A message \in SendValues :
            (send(message) /\ (~stdin \/ stdinEnded)) =>
                (sendThrew' /\ stdinWrites' = stdinWrites) ]_vars

\* C15: if the process cannot be spawned, the session emits an 'error'
\* event carrying the OS-level failure at once, without waiting for the
\* three-signal join.
C15_SpawnFailureEmitsError ==
    spawnError = "delivered" => Count("error") > 0

\* the error values the session has handed out: to 'error' listeners and
\* as the first argument of the end callback
ErrorsSeen ==
    {Entries("error")[i][2] : i \in 1..Count("error")}
        \cup ({Entries("endCallback")[i][3] : i \in 1..Count("endCallback")}
                 \ {NoError})

\* C19: when the process exits with a non-zero code N and no stderr text
\* was received, the error has message "process exited with code N" and
\* exitCode N.
C19_GenericError ==
    (NonZeroExit /\ stderrFed = <<>>) =>
        /\ AllSignalsIn => ErrorsSeen # {}
        /\ \A e \in ErrorsSeen :
              /\ e.message = <<"process exited with code ", ToString(exitCode)>>
              /\ e.exitCode = exitCode

\* C19 witness: exit code 1, nothing on stderr, the error was handed to a
\* listener and to the end callback
C19_Witness ==
    /\ exitCode = 1 /\ stderr /\ stderrFed = <<>>
    /\ Count("error") = 1 /\ Count("endCallback") = 1
    /\ \A e \in ErrorsSeen :
          /\ e.message = <<"process exited with code ", "1">>
          /\ e.traceback = <<>> /\ e.stack = <<>> /\ e.exitCode = 1

\* a line with a character that is not white space
NonBlank(line) == \E i \in 1..Len(line) : line[i] \notin Whitespace

\* the last of the lines that is not empty, <<>> when there is none
RECURSIVE LastNonEmptyLine(_)
LastNonEmptyLine(lines) ==
    IF lines = <<>> THEN <<>>
    ELSE IF lines[Len(lines)] # <<>> THEN lines[Len(lines)]
    ELSE LastNonEmptyLine(SubSeq(lines, 1, Len(lines) - 1))

\* the last of the lines that is not blank, <<>> when there is none
RECURSIVE LastNonBlankLine(_)
LastNonBlankLine(lines) ==
    IF lines = <<>> THEN <<>>
    ELSE IF NonBlank(lines[Len(lines)]) THEN lines[Len(lines)]
    ELSE LastNonBlankLine(SubSeq(lines, 1, Len(lines) - 1))

\* a text without its trailing white space
RECURSIVE TrimRight(_)
TrimRight(text) ==
    IF text # <<>> /\ text[Len(text)] \in Whitespace
    THEN TrimRight(SubSeq(text, 1, Len(text) - 1))
    ELSE text

\* C20 as claimed: when the stderr text begins with "Traceback" and the exit
\* code is non-zero, the error's message is the last non-empty line of the
\* stderr text and its traceback is the complete stderr text.
C20_TracebackError ==
    (NonZeroExit /\ IsTraceback(stderrFed)) =>
        \A e \in ErrorsSeen :
            /\ e.message = LastNonEmptyLine(split(stderrFed))
            /\ e.traceback = stderrFed

\* C20 as amended: the message is the last line of the stderr text that is
\* not blank (has a character other than white space), without its
\* trailing white space; the traceback is the complete stderr text.
C20_TracebackErrorTrimmed ==
    (NonZeroExit /\ IsTraceback(stderrFed)) =>
        /\ AllSignalsIn => ErrorsSeen # {}
        /\ \A e \in ErrorsSeen :
              /\ e.message = TrimRight(LastNonBlankLine(split(stderrFed)))
              /\ e.traceback = stderrFed

\* C20 witness: the traceback header and a summary line with a trailing
\* blank; the error carries the summary without the blank
C20_Witness ==
    /\ exitCode = 1
    /\ stderrFed = <<"T", newline, "a", " ", newline>>
    /\ \E e \in ErrorsSeen : e.message = <<"a">> /\ e.traceback = stderrFed

\* the payloads of the 'message' events among the first n trace entries
MessagesBefore(n) ==
    LET before == SelectSeq(SubSeq(trace, 1, n), LAMBDA e : e[1] = "message")
    IN  [i \in 1..Len(before) |-> before[i][2]]

\* the calls run's end callback has made to the caller's callback: one for
\* each invocation of the end callback, with the output collected till then
RunCalls ==
    LET at == SelectSeq([i \in 1..Len(trace) |-> i],
                        LAMBDA i : trace[i][1] = "endCallback")
    IN  [k \in 1..Len(at) |-> runCallback(trace[at[k]][3], MessagesBefore(at[k]))]

\* C18: run invokes the callback exactly once, at the terminal join; with
\* exit code 0 it passes (null, all message payloads in emission order), or
\* (null, null) when no message was emitted.
C18_RunCallback ==
    endCallback = "run" =>
        /\ Len(RunCalls) = (IF AllSignalsIn THEN 1 ELSE 0)
        /\ (AllSignalsIn /\ exitCode = 0) =>
              /\ RunCalls[1].err = NoError
              /\ IF Count("message") = 0
                 THEN RunCalls[1].kind = "null"
                 ELSE /\ RunCalls[1].kind = "list"
                      /\ RunCalls[1].output = Payloads("message")

\* C18 witness: two messages, exit code 0, the callback got both in order
C18_Witness ==
    /\ endCallback = "run" /\ exitCode = 0 /\ mode = "text"
    /\ Len(RunCalls) = 1
    /\ RunCalls[1].kind = "list"
    /\ RunCalls[1].output = << <<"1">>, <<>> >>

\* the text a value is sent as: the mode's format of the value
Formatted(message) ==
    IF mode = "text" THEN toText(message)
    ELSE IF mode = "json" THEN toJson(message)
    ELSE message.text

\* C21: on an open stdin each send(value) makes exactly one write, after the
\* earlier ones: in text and json mode the formatted value followed by one
\* delimiter, in binary mode the value as it is; send does not throw (it
\* returns the session).
C21_SendWritesOneRecord ==
    [][ \A message \in SendValues :
            (send(message) /\ stdin /\ ~stdinEnded) =>
                /\ ~sendThrew'
                /\ stdinWrites' =
                     Append(stdinWrites,
                            IF mode = "binary" THEN message.text
                            ELSE Formatted(message) \o <<newline>>) ]_vars

\* C21 witness: in json mode "a" and then 1 were sent and reached stdin as
\* two delimiter-terminated writes, in call order
C21_Witness ==
    /\ mode = "json" /\ ~sendThrew
    /\ stdinWrites = << <<"\"", "a", "\"", newline>>, <<"1", newline>> >>

\* C22: a stream that was never opened counts as ended from construction
\* on, and once the exit notification and the end of every opened stream
\* have arrived, close is emitted (with both streams unopened, on the exit
\* notification alone).
C22_UnopenedCountsEnded ==
    /\ ~stdout => stdoutHasEnded
    /\ ~stderr => stderrHasEnded
    /\ (ExitAssigned /\ (stdout => stdoutHasEnded) /\ (stderr => stderrHasEnded))
          => Count("close") = 1

\* C23: the terminal join never raises an exception out of the handler of
\* the completion signal, also when the exit code is non-zero and neither
\* an error listener nor an end callback is registered: the join completes
\* (terminated set, close emitted).
C23_JoinNeverThrows ==
    /\ "error" \notin uncaught
    /\ (AllSignalsIn /\ NonZeroExit) => (terminated /\ Count("close") = 1)

\* C24: terminated is false right after construction, and no operation or
\* event (send, end, terminate, data, stream end, exit) sets it back to
\* false once it is true: it changes value at most once.
C24_TerminatedMonotonic ==
    /\ ~terminated
    /\ [][terminated => terminated']_vars

\* C24 witness: terminate() set the flag; afterwards the child wrote, the
\* caller sent and ended, the process exited and the join fired, and the
\* flag is still set
C24_Witness ==
    /\ terminated
    /\ killSignal # Null
    /\ exitSignal = killSignal
    /\ Count("close") = 1
    /\ Count("endCallback") = 1
    /\ stdinWrites # <<>>
    /\ stdoutFed # <<>>

\* C26: with no stderrParser option the stderr records are handled as in
\* text mode, whatever the session's mode: every delimiter-terminated line
\* of stderr is the payload of one stderr event, unchanged (stated for a
\* session whose stdout is not piped, so that stderr alone feeds the
\* buffer).
C26_StderrAsText ==
    (stderr /\ ~stdout) =>
        /\ "parser" \notin uncaught
        /\ Payloads("stderr") = TerminatedRecords(stderrFed)

\* C27: for a session that ends with a non-zero exit code exactly one error
\* value is constructed, at the terminal join: it is emitted to the error
\* listeners at most once, the end callback registered at the join gets the
\* same value as its first argument, and the error never goes unreported:
\* it is emitted (to a listener, or thrown when there is none) or passed to
\* the callback.
C27_AtJoin ==
    (LastSignalStep /\ exitCode' # NoCode /\ exitCode' # 0) =>
        LET err == JoinError(errorData', exitCode')
        IN  /\ Len(EntriesNext("error")) <= 1
            /\ \A i \in 1..Len(EntriesNext("error")) : EntriesNext("error")[i][2] = err
            /\ (endCallback # Null /\ "error" \notin uncaught') =>
                   /\ Len(EntriesNext("endCallback")) = 1
                   /\ EntriesNext("endCallback")[1][3] = err
            /\ \/ Len(EntriesNext("error")) = 1
               \/ /\ Len(EntriesNext("endCallback")) = 1
                  /\ EntriesNext("endCallback")[1][3] = err

C27_OneError ==
    /\ [](Cardinality(ErrorsSeen) <= 1 /\ Count("error") <= 1)
    /\ [](ErrorsSeen # {} => (AllSignalsIn /\ NonZeroExit))
    /\ [][C27_AtJoin]_vars

\* C27 witness: a failed session with a listener and a callback: the same
\* error went to both, once
C27_Witness ==
    /\ NonZeroExit
    /\ Count("error") = 1
    /\ Count("endCallback") = 1
    /\ Entries("error")[1][2] = Entries("endCallback")[1][3]
    /\ Entries("error")[1][2] # NoError

\* C28: when the process is ended by a signal s (exit notification with no
\* exit code and signal s), exitSignal becomes s and exitCode stays unset;
\* the join still fires once both streams have ended (terminated set, close
\* emitted), no error is built, and the end callback registered at the join
\* receives (no error, null, s).
C28_ExitStep ==
    \A s \in {"SIGTERM", "SIGKILL"} :
        Exit(NoCode, s) => (exitSignal' = s /\ exitCode' = NoCode)

C28_AtJoin ==
    (LastSignalStep /\ exitSignal' # Null /\ endCallback # Null) =>
        EntriesNext("endCallback")
            = << <<"endCallback", endCallback, NoError, NoCode, exitSignal'>> >>

C28_SignalExit ==
    /\ []((AllSignalsIn /\ exitSignal # Null) =>
            /\ terminated
            /\ Count("close") = 1
            /\ ErrorsSeen = {}
            /\ "error" \notin uncaught)
    /\ [][C28_ExitStep]_vars
    /\ [][C28_AtJoin]_vars

\* C28 witness: killed with SIGKILL, the callback got (no error, null,
\* "SIGKILL") and close was emitted
C28_Witness ==
    /\ exitSignal = "SIGKILL" /\ exitCode = NoCode
    /\ Count("close") = 1
    /\ Count("endCallback") = 1
    /\ Entries("endCallback")[1][3] = NoError
    /\ Entries("endCallback")[1][4] = NoCode
    /\ Entries("endCallback")[1][5] = "SIGKILL"

\* C29: the command vector is the interpreter options, then the one script
\* path (the scriptPath option joined with the script), then the script
\* arguments, in that order; an absent option list contributes nothing.
C29_CommandVector ==
    launch.constructed =>
        LET opts == launch.options.pythonOptions
            args == launch.options.args
            n    == IF opts.kind = "undefined" THEN 0 ELSE Len(opts.items)
            m    == IF args.kind = "undefined" THEN 0 ELSE Len(args.items)
        IN  /\ Len(launch.command) = n + 1 + m
            /\ \A i \in 1..n : launch.command[i] = opts.items[i]
            /\ launch.command[n + 1] = join(launch.options.scriptPath, launch.script)
            /\ launch.command[n + 1] = launch.scriptPath
            /\ \A i \in 1..m : launch.command[n + 1 + i] = args.items[i]

\* C29 witness: two interpreter options given as a list, one argument given
\* as a single string, a script directory
C29_Witness ==
    /\ launch.constructed
    /\ launch.options.pythonOptions.kind = "array"
    /\ launch.options.args.kind = "single"
    /\ launch.command = << <<"x">>, <<"y">>, <<"dir", "a.py">>, <<"x">> >>

\* the message payloads and the end-callback invocations of the second
\* session
PeerMessages ==
    LET ms == SelectSeq(peer.trace, LAMBDA e : e[1] = "message")
    IN  [i \in 1..Len(ms) |-> ms[i][2]]
PeerCallbacks == SelectSeq(peer.trace, LAMBDA e : e[1] = "endCallback")

\* the error a finished session is due, from its own exit code and its own
\* stderr text
DueError(code, text) == IF IsFailure(code) THEN JoinError(text, code) ELSE NoError

\* C25: sessions are isolated: an event or operation on one session leaves
\* every field of the other unchanged, and the run callback of each session
\* gets the messages and the error of its own session only.
C25_Frame ==
    /\ TwoOwnStep => peer' = peer
    /\ TwoPeerStep => own' = own

C25_OwnResults ==
    /\ (endCallback = "run" /\ AllSignalsIn) =>
          RunCalls = << runCallback(DueError(exitCode, stderrFed),
                                    TerminatedRecords(stdoutFed)) >>
    /\ PeerCallbacks # <<>> =>
          /\ Len(PeerCallbacks) = 1
          /\ PeerCallbacks[1][3] = DueError(peer.exitCode, peer.stderrFed)
          /\ runCallback(PeerCallbacks[1][3], PeerMessages)
               = runCallback(DueError(peer.exitCode, peer.stderrFed),
                             TerminatedRecords(peer.stdoutFed))

C25_SessionsIsolated == [][C25_Frame]_vars /\ []C25_OwnResults

\* C25 witness: both sessions wrote to stdout and stderr and failed; each
\* run callback has been called
C25_Witness ==
    /\ exitCode = 1 /\ peer.exitCode = 1
    /\ stdoutFed # <<>> /\ stderrFed # <<>>
    /\ peer.stderrFed # <<>>
    /\ Len(RunCalls) = 1
    /\ Len(PeerCallbacks) = 1
    /\ RunCalls[1].err.message = <<"a", newline>>
    /\ PeerCallbacks[1][3].message = <<"1", newline>>

\* C30: JSON codec round trip: parse.json(format.json(v)) is v for each of
\* the values, the formatted text holds no delimiter, and a value sent in
\* json mode and echoed back arrives as exactly one message, equal to the
\* value sent.
C30_JsonRoundTrip ==
    /\ \A m \in EchoValues :
          /\ JsonValid(toJson(m))
          /\ asJson(toJson(m)) = m.text
          /\ \A i \in 1..Len(toJson(m)) : toJson(m)[i] # newline
    /\ (mode = "json" /\ ~stderr) =>
          /\ Count("message") = written
          /\ \A k \in 1..written :
                \E m \in EchoValues :
                    /\ stdinWrites[k] = toJson(m) \o <<newline>>
                    /\ Payloads("message")[k] = m.text

\* C30 witness: {a:"b"} and then null were sent and echoed, and arrived as
\* two messages equal to them
C30_Witness ==
    /\ mode = "json"
    /\ written = 2
    /\ stdinWrites[1] = <<"{", "\"", "a", "\"", ":", "\"", "b", "\"", "}", newline>>
    /\ Payloads("message")
         = << JsonObject(<< << <<"a">>, JsonString(<<"b">>) >> >>), JsonNull >>

\* C31: feeding a chunk is equivalent to appending it to the carry buffer
\* and splitting the combined buffer: for either delimiter and every chunk
\* boundary, also one inside the delimiter, the records emitted are the
\* delimiter-terminated records of the concatenated input and the carry
\* buffer is what follows its last delimiter.
C31_ChunkingInvisible ==
    (mode = "text" /\ stdout /\ ~stderr) =>
        /\ Payloads("message") = TerminatedRecords(stdoutFed)
        /\ remaining = Fragment(stdoutFed)

\* C32 as claimed: the raw stderr text is accumulated verbatim, whatever the
\* per-line stderr events do; when the exit code is non-zero and the text
\* does not begin with "Traceback", the error's message is the concatenation
\* of all stderr chunks in arrival order and no traceback is set.
C32_StderrIsMessage ==
    /\ errorData = stderrFed
    /\ (NonZeroExit /\ ~IsTraceback(stderrFed)) =>
          \A e \in ErrorsSeen : e.message = stderrFed /\ e.traceback = <<>>

\* C32 as amended: the same for a stderr text that is not empty (with no
\* stderr text the message is the generic one).
C32_StderrVerbatim ==
    /\ errorData = stderrFed
    /\ (NonZeroExit /\ stderrFed # <<>> /\ ~IsTraceback(stderrFed)) =>
          /\ AllSignalsIn => ErrorsSeen # {}
          /\ \A e \in ErrorsSeen : e.message = stderrFed /\ e.traceback = <<>>

\* C32 witness: in json mode two chunks that are not JSON arrived, the
\* parser threw and no stderr event was emitted, and the error's message is
\* the two chunks
C32_Witness ==
    /\ mode = "json" /\ "parser" \in uncaught
    /\ Count("stderr") = 0
    /\ exitCode = 1
    /\ stderrFed = <<"a", newline, " ", "a">>
    /\ \E e \in ErrorsSeen : e.message = stderrFed /\ e.traceback = <<>>

\* the list an option value stands for, and null for an empty list
GivenOrNull(v) ==
    IF v.kind = "undefined" \/ (v.kind = "array" /\ v.items = <<>>)
    THEN [kind |-> "null", items |-> <<>>]
    ELSE [kind |-> "array", items |-> v.items]

\* C33: every error built at the terminal join (and one is built whenever
\* the exit code is non-zero) carries executable, options, script, args and
\* exitCode: exitCode is the session's exit code, script the resolved
\* script path, options the interpreter option list or null when it is
\* empty, args the script argument list or null when it is empty.
C33_ErrorContext ==
    /\ (AllSignalsIn /\ NonZeroExit) => ErrorsSeen # {}
    /\ \A e \in ErrorsSeen :
          /\ {"executable", "options", "script", "args", "exitCode"}
                \subseteq DOMAIN e
          /\ e.executable = (IF launch.options.pythonPath = "" THEN "python3"
                             ELSE launch.options.pythonPath)
          /\ e.exitCode = exitCode
          /\ e.script = join(launch.options.scriptPath, launch.script)
          /\ e.options = GivenOrNull(launch.options.pythonOptions)
          /\ e.args = GivenOrNull(launch.options.args)

\* C33 witness: a session with two interpreter options, an empty argument
\* list, a script directory and its own interpreter failed; the callback
\* got the error with that context
C33_Witness ==
    /\ exitCode = 1
    /\ launch.options.args = [kind |-> "array", items |-> <<>>]
    /\ Count("endCallback") = 1
    /\ LET e == Entries("endCallback")[1][3]
       IN  /\ e.executable = "python2"
           /\ e.options = [kind |-> "array", items |-> << <<"x">>, <<"y">> >>]
           /\ e.script = <<"dir", "a.py">>
           /\ e.args = [kind |-> "null", items |-> <<>>]
           /\ e.exitCode = 1
           /\ e.message = <<"a", newline>>

\* C34: end(callback) closes stdin if it was opened, stores the callback and
\* returns: it leaves terminated, stdoutHasEnded, stderrHasEnded, exitCode,
\* exitSignal and the carry buffer unchanged, emits nothing and invokes
\* nothing; close is emitted and the end callback invoked only in the step
\* in which the last completion signal arrives.
C34_EndStep ==
    \A callback \in Callbacks :
        end(callback) =>
            /\ stdinEnded' = (stdin \/ stdinEnded)
            /\ endCallback' = callback
            /\ UNCHANGED <<terminated, stdoutHasEnded, stderrHasEnded, exitCode,
                           exitSignal, remaining>>
            /\ trace' = trace
            /\ uncaught' = uncaught

C34_CompletionAtJoin ==
    (EntriesNext("close") # Entries("close")
        \/ EntriesNext("endCallback") # Entries("endCallback")) => LastSignalStep

C34_EndOneWay == [][C34_EndStep]_vars /\ [][C34_CompletionAtJoin]_vars

\* C34 witness: end(cb2) was called after stdout had ended and while a
\* fragment was in the carry buffer: stdin is closed, the callback stored,
\* nothing else has happened, the session is not terminated
C34_Witness ==
    /\ stdin /\ stdinEnded /\ endCallback = "cb2" /\ endLate
    /\ stdoutHasEnded /\ ~stderrHasEnded /\ ~ExitAssigned
    /\ remaining = <<"a">>
    /\ ~terminated
    /\ trace = <<>>

\* the index of the last of the lines that is not blank, 0 when there is none
RECURSIVE LastNonBlankIndex(_)
LastNonBlankIndex(lines) ==
    IF lines = <<>> THEN 0
    ELSE IF NonBlank(lines[Len(lines)]) THEN Len(lines)
    ELSE LastNonBlankIndex(SubSeq(lines, 1, Len(lines) - 1))

\* the lines of a traceback between its header line and its exception line
\* (the last line that is not blank)
TracebackBody(text) ==
    SubSeq(split(text), 2, LastNonBlankIndex(split(text)) - 1)

\* the lines that follow the host-side stack in an error's stack
StackLines(e) == Tail(split(e.stack))

\* C35 as claimed: for stderr text beginning with "Traceback", after the
\* host-side stack the error's stack has the banner line and then every
\* traceback line except the header line and the exception line, in order,
\* each as it is in the text.
C35_StackHoldsTraceback ==
    (NonZeroExit /\ IsTraceback(stderrFed)) =>
        \A e \in ErrorsSeen :
            /\ trim(StackLines(e)[1]) = <<Banner>>
            /\ Tail(StackLines(e)) = TracebackBody(stderrFed)

\* C35 as amended: each of these lines has two blanks put before its own
\* indentation, and when there is no such line the banner is followed by
\* one line of two blanks.
C35_StackHoldsIndentedTraceback ==
    (NonZeroExit /\ IsTraceback(stderrFed)) =>
        /\ AllSignalsIn => ErrorsSeen # {}
        /\ \A e \in ErrorsSeen :
              LET body == TracebackBody(stderrFed)
              IN  /\ Head(split(e.stack)) = <<>>
                  /\ trim(StackLines(e)[1]) = <<Banner>>
                  /\ Tail(StackLines(e)) =
                        IF body = <<>> THEN << <<" ", " ">> >>
                        ELSE [i \in 1..Len(body) |-> <<" ", " ">> \o body[i]]

\* C35 witness: header, two indented lines and the summary arrived in two
\* chunks; the stack has the banner and the two lines, each two blanks
\* further in
C35_Witness ==
    /\ exitCode = 1
    /\ stderrFed = <<"T", newline, " ", "a", newline, " ", " ", "b", newline, "c", newline>>
    /\ \E e \in ErrorsSeen :
          /\ e.message = <<"c">>
          /\ StackLines(e) = << <<" ", " ", " ", " ", Banner>>,
                                <<" ", " ", " ", "a">>,
                                <<" ", " ", " ", " ", "b">> >>

\* C36: the options of a session are defaultOptions overridden key by key
\* by the options passed to the constructor; constructing a session changes
\* neither PythonShell.defaultOptions nor the caller's options object, so
\* every later session starts from the same defaults.
C36_Step ==
    /\ objects'.defaultOptions = objects.defaultOptions
    /\ \A given \in GivenChoices :
          (\E script \in { <<"a.py">>, <<"..", "a.py">> } :
                constructSession(script, given)) =>
              objects'.sessions[Len(objects'.sessions)].given = given

C36_Overridden ==
    \A i \in 1..Len(objects.sessions) :
        LET session  == objects.sessions[i]
            defaults == objects.defaultOptions
        IN  /\ DOMAIN session.options = DOMAIN defaults \cup DOMAIN session.given
            /\ \A key \in DOMAIN session.options :
                  session.options[key] =
                      IF key \in DOMAIN session.given THEN session.given[key]
                      ELSE defaults[key]

C36_DefaultsOverridden == [][C36_Step]_vars /\ []C36_Overridden

\* C36 witness: with defaults {scriptPath, args}, a first session overrode
\* scriptPath and a second was given no options: the second one has the
\* defaults and runs the script in the default directory
C36_Witness ==
    /\ Len(objects.sessions) = 2
    /\ DOMAIN objects.defaultOptions = {"scriptPath", "args"}
    /\ objects.sessions[1].options.scriptPath = <<"lib">>
    /\ objects.sessions[1].options.args = objects.defaultOptions.args
    /\ objects.sessions[2].given = EmptyObject
    /\ objects.sessions[2].options = objects.defaultOptions
    /\ launch.command = << <<"dir", "a.py">>, <<"x">> >>

\* what the terminal join does, in the order the claim gives
JoinRank(kind) ==
    IF kind = "error" THEN 1
    ELSE IF kind = "terminated" THEN 2
    ELSE IF kind = "close" THEN 3
    ELSE IF kind = "endCallback" THEN 4
    ELSE 0

\* the kinds of the join's entries of the trace, in order
JoinKinds ==
    LET es == SelectSeq(trace, LAMBDA e : JoinRank(e[1]) > 0)
    IN  [i \in 1..Len(es) |-> es[i][1]]

\* C37: within the terminal join the error event (when emitted) comes
\* first, then terminated is set, then close is emitted, then the end
\* callback is invoked; so terminated is true whenever close has been
\* emitted or the end callback invoked, and the error event of a session
\* precedes its close event.
C37_JoinOrder ==
    /\ \A i, j \in 1..Len(JoinKinds) :
          JoinRank(JoinKinds[i]) < JoinRank(JoinKinds[j]) => i < j
    /\ (Count("close") > 0 \/ Count("endCallback") > 0) =>
          (terminated /\ Count("terminated") = 1)
    /\ \A i, j \in 1..Len(trace) :
          (trace[i][1] = "error" /\ trace[j][1] = "close") => i < j

\* C37 witness: a session that nobody killed failed with a listener and a
\* callback registered: error, the flag, close, the callback, in this order
C37_Witness ==
    /\ killSignal = Null
    /\ exitCode = 1
    /\ JoinKinds = <<"error", "terminated", "close", "endCallback">>
    /\ terminated

\* C38 as claimed: when a session started by run ends with a non-zero exit
\* code, run's callback is invoked once with the error as its only
\* argument (the messages collected are not passed), and the session emits
\* no error event.
C38_RunFailure ==
    (endCallback = "run" /\ AllSignalsIn /\ NonZeroExit) =>
        /\ Len(RunCalls) = 1
        /\ RunCalls[1].err = JoinError(stderrFed, exitCode)
        /\ RunCalls[1].kind = "undefined"
        /\ RunCalls[1].output = <<>>
        /\ Count("error") = 0

\* C38 as amended: the same, with no error event emitted as long as no
\* error listener has been registered on the session that run returned.
C38_RunFailureCallbackOnly ==
    (endCallback = "run" /\ AllSignalsIn /\ NonZeroExit) =>
        /\ Len(RunCalls) = 1
        /\ RunCalls[1].err = JoinError(stderrFed, exitCode)
        /\ RunCalls[1].kind = "undefined"
        /\ RunCalls[1].output = <<>>
        /\ "error" \notin uncaught
        /\ errorListeners = 0 => Count("error") = 0

\* C38 witness: a run session emitted a message and then failed: the
\* callback got the error alone, and no error event was emitted
C38_Witness ==
    /\ endCallback = "run" /\ exitCode = 1 /\ mode = "text"
    /\ Count("message") = 1
    /\ errorListeners = 0 /\ Count("error") = 0
    /\ Len(RunCalls) = 1
    /\ RunCalls[1].kind = "undefined"
    /\ RunCalls[1].err.message = <<"process exited with code ", "1">>

\* C39: a session holds one pending end callback: end(cb2) after end(cb1)
\* replaces cb1, and a join that comes after both invokes cb2 exactly once
\* and cb1 not at all; no callback is ever invoked a second time.
C39_Replace == endSecond => endCallback' = "cb2"

C39_JoinAfterBoth ==
    (LastSignalStep /\ endCallback = "cb2") =>
        /\ Len(EntriesNext("endCallback")) = 1
        /\ EntriesNext("endCallback")[1][2] = "cb2"

C39_OneCallback ==
    /\ [](Count("endCallback") <= 1)
    /\ [][C39_Replace]_vars
    /\ [][C39_JoinAfterBoth]_vars

\* C39 witness: cb1 and then cb2 were registered, the session finished, and
\* the one callback invoked is cb2
C39_Witness ==
    /\ endCallback = "cb2"
    /\ AllSignalsIn /\ terminated
    /\ Count("endCallback") = 1
    /\ Entries("endCallback")[1][2] = "cb2"

\* how many delimiters a text holds
NumDelimiters(text) == Len(split(text)) - 1

\* the records emitted for each stream are as many as its delimiters
OneRecordPerDelimiter ==
    /\ Count("message") = NumDelimiters(stdoutFed)
    /\ Count("stderr") = NumDelimiters(stderrFed)

\* in a step that takes in the chunk data: each delimiter of the chunk that
\* directly follows a delimiter in it, or stands first while the carry
\* buffer is empty, gives an event whose payload is the parse of ""
EmptyRecordsEmitted(data) ==
    \A k \in 1..Len(data) :
        (/\ data[k] = newline
         /\ IF k = 1 THEN remaining = <<>> ELSE data[k - 1] = newline) =>
            LET at == Len(trace) + Cardinality({i \in 1..k : data[i] = newline})
            IN  /\ at <= Len(trace')
                /\ trace'[at][2] = ParserValue(resolve(mode), <<>>)

EmptyRecordsStep ==
    \A data \in EmptyLineChunks :
        (StdoutData(data) \/ StderrData(data)) => EmptyRecordsEmitted(data)

\* C40 as claimed: empty records are preserved: a delimiter that directly
\* follows another or arrives while the carry buffer is empty produces one
\* message whose payload is the parse of the empty string, and the number
\* of records emitted for a stream always equals the number of delimiters
\* received on it.
C40_EmptyRecordsKept == []OneRecordPerDelimiter /\ [][EmptyRecordsStep]_vars

\* C40 as amended: the same in text mode, where the parse of the empty
\* string is the empty string.
C40_EmptyRecordsKeptInText ==
    /\ [](mode = "text" => OneRecordPerDelimiter)
    /\ [][mode = "text" => EmptyRecordsStep]_vars

\* C40 witness: in text mode stdout delivered a line break and then a line
\* followed by an empty line: three messages, the first and last empty
\* strings
C40_Witness ==
    /\ mode = "text"
    /\ stdoutFed = <<newline, "1", newline, newline>>
    /\ Payloads("message") = << <<>>, <<"1">>, <<>> >>

====
